---- MODULE Spec2Model ----
(***************************************************************************)
(* Motion-signal comparison engine of the running-form application         *)
(* (src/src/App.jsx, the App component and the module-level comparison     *)
(* functions linInterp, fillNaLinear, findLocalMinima, cyclesNormalize,    *)
(* rmse, avg, stdev).                                                      *)
(*                                                                         *)
(* Numbers.  A JavaScript value is a triple <<kind, n, d>>:                *)
(*   kind 0  null                                                          *)
(*   kind 1  the finite number n/d (d > 0, lowest terms)                   *)
(*   kind 2  a non-finite number (NaN, +Infinity, -Infinity)               *)
(*   kind 3  undefined (a read past the end of an array)                   *)
(*   kind 4  Math.sqrt of the finite number n/d                            *)
(* Arithmetic is exact rational arithmetic; the rounding of IEEE doubles   *)
(* is not modelled.  Times are in centiseconds (a sample's t is a number   *)
(* of seconds with two decimals, src/src/App.jsx:1567).                    *)
(***************************************************************************)
EXTENDS Integers, Sequences, FiniteSets, TLC

VARIABLES
    fn,             \* the comparison function under call: its arrays, its arguments, its result
    refSamples,     \* useState refSamples: the saved reference series, or not saved
    cmpSamples,     \* useState cmpSamples: the saved candidate series, or not saved
    metrics,        \* useState metrics: channel -> enabled
    cycleNormalize, \* useState cycleNormalize
    compareResult,  \* useState compareResult
    compareStats,   \* useState compareStats
    compareRmse,    \* useState compareRmse
    notice,         \* the alert raised by the last handler ("none" when it raised none)
    lastOp,         \* the operation of the comparison panel that ran last
    \* the recorder and the frame loop of App
    now,                \* performance.now(), in milliseconds
    scene,              \* what the video shows: "clear" (the whole runner) or "occluded"
    detectorRef,        \* detectorRef.current holds a detector
    useCamera,          \* useState useCamera
    srcObject,          \* videoRef.current.srcObject holds a camera stream
    liveStreams,        \* number of acquired camera streams whose tracks are not stopped
    pendingMeta,        \* the video elements whose onloadedmetadata handler has still to run
    runningRef,         \* runningRef.current
    rafRef,             \* the frame callback whose handle rafRef.current holds is pending
    orphanFrames,       \* number of pending frame callbacks whose handle rafRef.current no longer holds
    awaitingPose,       \* number of render steps suspended in await estimatePoses
    recording,          \* useState recording
    recordingRef,       \* recordingRef.current
    samplesRef,         \* samplesRef.current: the sample buffer
    startTimeRef,       \* startTimeRef.current, in milliseconds
    lastSampleTimeRef,  \* lastSampleTimeRef.current, in milliseconds
    bufRef,             \* kneeLBufRef ... trunkBufRef: channel -> smoothing buffer
    sharesBuffer,       \* per role, whether the array saved for it is samplesRef.current itself
    hist,               \* history of the run: sessions, emission times, the last frame step
    \* the estimation loop of PitchCompare
    pitchDetector,      \* useState detector holds a detector
    powerSave,          \* useState powerSave
    pitchRaf,           \* the step callback whose handle raf holds is pending
    pitchLastTs,        \* lastTs of the effect that runs, in milliseconds
    pitchPlaying,       \* useState playing
    videoActive,        \* side -> the video is neither paused nor ended
    pitchCalls,         \* side -> number of estimatePoses calls on the video not yet settled
    pitchSeq,           \* side -> number of values pushed to each series of the side
    pitchUnhandled,     \* the promise of a step was rejected, which nothing handles
    \* the payment handlers
    entitlements,       \* the items of the table USER_ACCESS_TABLE
    delivered,          \* the request body the webhook handled last
    webhookResponse,    \* what the webhook returned for it, or that it threw
    wallClock,          \* new Date(), as a count of instants
    sessions,           \* the checkout sessions created at the payment provider
    checkoutResponse    \* what the checkout handler returned last

frameVars == <<now, scene, detectorRef, useCamera, srcObject, liveStreams, pendingMeta,
               runningRef, rafRef, orphanFrames, awaitingPose,
               recording, recordingRef, samplesRef, startTimeRef, lastSampleTimeRef,
               bufRef, sharesBuffer, hist>>

pitchVars == <<pitchDetector, powerSave, pitchRaf, pitchLastTs, pitchPlaying, videoActive,
               pitchCalls, pitchSeq, pitchUnhandled>>

payVars == <<entitlements, delivered, webhookResponse, wallClock, sessions, checkoutResponse>>

vars == <<fn, refSamples, cmpSamples, metrics, cycleNormalize,
          compareResult, compareStats, compareRmse, notice, lastOp, frameVars, pitchVars,
          payVars>>

appVars == <<refSamples, cmpSamples, metrics, cycleNormalize,
             compareResult, compareStats, compareRmse, notice, lastOp, frameVars, pitchVars,
          payVars>>

----------------------------------------------------------------------------
(* Bounds of the model *)

MaxLen == 5         \* longest array handed to linInterp, fillNaLinear and findLocalMinima
RmseLen == 3        \* longest array handed to rmse
MaxTick == 5        \* times of those arrays are multiples of the sampling interval, up to MaxTick of them
MaxLevel == 2       \* values of those arrays are drawn from 0, LevelStep, ..., MaxLevel*LevelStep
LevelStep == 6      \* distance of two value levels, in degrees
MaxSeriesLen == 7   \* number of samples of a saved series
MaxLead == 1        \* longest leading run of null in a channel of a saved series
MaxRequested == 2   \* largest number of channels enabled for one comparison
TickMs == 52        \* the clock advances in steps of TickMs milliseconds
MaxNowTicks == 4    \* the clock stops after MaxNowTicks steps
MaxLoops == 2       \* largest number of chains of render steps alive at once
MaxStreams == 1     \* largest number of camera streams with live tracks
MaxSessions == 2    \* largest number of recording sessions
MaxLow == 1         \* largest number of landmarks below the threshold in one pose
MaxPitchCalls == 2  \* largest number of unsettled estimatePoses calls on one video
MaxPitchSeq == 2    \* largest number of values pushed to a series of PitchCompare
MaxPushes == 6      \* largest number of valid inputs pushed to one smoothing buffer
MaxEmaPushes == 5   \* largest number of non-null inputs pushed to one EMA
MaxClock == 1       \* instants the wall clock of the payment handlers advances through
MaxCheckouts == 3   \* checkout sessions created
MaxCsvRows == 3     \* largest number of samples in an exported buffer
MaxMeanOf == 3      \* largest number of frames a smoothed value of an exported sample is the mean of

(* Program constants *)

PromWindow == 10    \* findLocalMinima looks 10 samples to each side
DefaultProminence == 8
DefaultMinGapCs == 35
CompareProminence == 5
CompareMinGapCs == 30
GridN == 100        \* cyclesNormalize: N = 100
SampleIntervalCs == 10     \* SAMPLE_INTERVAL_MS = 100
NeverKept == -1000000000   \* lastKeepT = -1e9 before any minimum is kept
MovingAvgMax == 5   \* movingAvg(buf, val, 5)

----------------------------------------------------------------------------
(* JavaScript values *)

Null == <<0, 0, 1>>
NaN == <<2, 0, 1>>
Undefined == <<3, 0, 1>>

Abs(i) == IF i < 0 THEN -i ELSE i

RECURSIVE GCD(_, _)
GCD(a, b) == IF b = 0 THEN a ELSE GCD(b, a % b)

Num(n, d) == IF d = 1 THEN <<1, n, 1>> ELSE LET g == GCD(Abs(n), d) IN <<1, n \div g, d \div g>>

IntV(n) == <<1, n, 1>>

Zero == <<1, 0, 1>>

IsNullish(v) == v[1] \in {0, 3}          \* v == null
IsFinite(v) == v[1] = 1

\* ToNumber: null -> 0, undefined -> NaN
ToNumber(v) == IF v[1] = 0 THEN Zero ELSE IF v[1] = 1 THEN v ELSE NaN

Add(a, b) ==
    LET x == ToNumber(a)
        y == ToNumber(b)
        g == GCD(x[3], y[3])
    IN  IF x[1] # 1 \/ y[1] # 1 THEN NaN
        ELSE IF x[3] = y[3] THEN Num(x[2] + y[2], x[3])
        ELSE Num(x[2] * (y[3] \div g) + y[2] * (x[3] \div g), (x[3] \div g) * y[3])

Neg(a) == LET x == ToNumber(a) IN IF x[1] # 1 THEN NaN ELSE <<1, -x[2], x[3]>>

Sub(a, b) == Add(a, Neg(b))

Mul(a, b) ==
    LET x == ToNumber(a)
        y == ToNumber(b)
        g1 == GCD(Abs(x[2]), y[3])
        g2 == GCD(Abs(y[2]), x[3])
    IN  IF x[1] # 1 \/ y[1] # 1 THEN NaN
        ELSE IF x[3] = 1 /\ y[3] = 1 THEN <<1, x[2] * y[2], 1>>
        ELSE Num((x[2] \div g1) * (y[2] \div g2), (x[3] \div g2) * (y[3] \div g1))

\* a / b; a division by zero gives a non-finite number
Div(a, b) ==
    LET x == ToNumber(a)
        y == ToNumber(b)
    IN  IF x[1] # 1 \/ y[1] # 1 \/ y[2] = 0 THEN NaN
        ELSE IF y[2] > 0 THEN Mul(x, <<1, y[3], y[2]>>)
        ELSE Mul(x, <<1, -y[3], -y[2]>>)

\* a <= b and a < b of JavaScript: false as soon as one side is NaN
Le(a, b) ==
    LET x == ToNumber(a)
        y == ToNumber(b)
    IN  x[1] = 1 /\ y[1] = 1 /\ x[2] * y[3] <= y[2] * x[3]

Lt(a, b) ==
    LET x == ToNumber(a)
        y == ToNumber(b)
    IN  x[1] = 1 /\ y[1] = 1 /\ x[2] * y[3] < y[2] * x[3]

Ge(a, b) == Le(b, a)

\* Math.sqrt
Sqrt(a) ==
    LET x == ToNumber(a)
    IN  IF x[1] # 1 \/ x[2] < 0 THEN NaN
        ELSE IF x[2] = 0 THEN Zero
        ELSE <<4, x[2], x[3]>>

\* arr[i] of JavaScript, i counted from 0
At(arr, i) == IF i >= 0 /\ i < Len(arr) THEN arr[i + 1] ELSE Undefined

\* two-argument Math.min / Math.max on numbers
Min2(a, b) == IF ToNumber(a)[1] # 1 \/ ToNumber(b)[1] # 1 THEN NaN ELSE IF Le(a, b) THEN ToNumber(a) ELSE ToNumber(b)
Max2(a, b) == IF ToNumber(a)[1] # 1 \/ ToNumber(b)[1] # 1 THEN NaN ELSE IF Le(a, b) THEN ToNumber(b) ELSE ToNumber(a)

\* Math.max(...arr); the empty array gives -Infinity
RECURSIVE MaxOf(_)
MaxOf(arr) ==
    IF Len(arr) = 0 THEN NaN
    ELSE IF Len(arr) = 1 THEN ToNumber(arr[1])
    ELSE Max2(arr[1], MaxOf(Tail(arr)))

RECURSIVE MinOf(_)
MinOf(arr) ==
    IF Len(arr) = 0 THEN NaN
    ELSE IF Len(arr) = 1 THEN ToNumber(arr[1])
    ELSE Min2(arr[1], MinOf(Tail(arr)))

\* the array f with every element evaluated once (f itself, as a value)
Array(f) == SubSeq(f, 1, Len(f))

\* arr.slice(from, to), indices counted from 0
Slice(arr, from, to) ==
    IF to <= from THEN <<>> ELSE SubSeq(arr, from + 1, to)

\* arr.filter(v => v != null)
RECURSIVE FilterNonNull(_)
FilterNonNull(arr) ==
    IF Len(arr) = 0 THEN <<>>
    ELSE IF IsNullish(arr[1]) THEN FilterNonNull(Tail(arr))
    ELSE <<arr[1]>> \o FilterNonNull(Tail(arr))

----------------------------------------------------------------------------
(* linInterp(x, xp, yp) *)

RECURSIVE ScanIdx(_, _, _)
ScanIdx(i, x, xp) ==
    IF i < Len(xp) /\ Lt(At(xp, i), x) THEN ScanIdx(i + 1, x, xp) ELSE i

linInterpIdx(x, xp) == ScanIdx(1, x, xp)

\* linInterp with the ratio of the interpolation inverted
linInterpInverted(x, xp, yp) ==
    IF Len(xp) = 0 \/ Len(yp) = 0 THEN Null
    ELSE IF Le(x, At(xp, 0)) THEN At(yp, 0)
    ELSE IF Ge(x, At(xp, Len(xp) - 1)) THEN At(yp, Len(yp) - 1)
    ELSE LET i == linInterpIdx(x, xp)
             x0 == At(xp, i - 1)
             x1 == At(xp, i)
             y0 == At(yp, i - 1)
             y1 == At(yp, i)
         IN  Add(y0, Div(Mul(Sub(y1, y0), Sub(x1, x0)), Sub(x, x0)))

\* linInterp without the clamp at the last sample
linInterpNoRightClamp(x, xp, yp) ==
    IF Len(xp) = 0 \/ Len(yp) = 0 THEN Null
    ELSE IF Le(x, At(xp, 0)) THEN At(yp, 0)
    ELSE LET i == linInterpIdx(x, xp)
             x0 == At(xp, i - 1)
             x1 == At(xp, i)
             y0 == At(yp, i - 1)
             y1 == At(yp, i)
         IN  Add(y0, Div(Mul(Sub(y1, y0), Sub(x, x0)), Sub(x1, x0)))

linInterp(x, xp, yp) ==
    IF Len(xp) = 0 \/ Len(yp) = 0 THEN Null
    ELSE IF Le(x, At(xp, 0)) THEN At(yp, 0)
    ELSE IF Ge(x, At(xp, Len(xp) - 1)) THEN At(yp, Len(yp) - 1)
    ELSE LET i == linInterpIdx(x, xp)
             x0 == At(xp, i - 1)
             x1 == At(xp, i)
             y0 == At(yp, i - 1)
             y1 == At(yp, i)
         IN  Add(y0, Div(Mul(Sub(y1, y0), Sub(x, x0)), Sub(x1, x0)))

----------------------------------------------------------------------------
(* fillNaLinear(xp, yp) *)

RECURSIVE SkipNullUp(_, _)
SkipNullUp(y, i) ==
    IF i < Len(y) /\ IsNullish(At(y, i)) THEN SkipNullUp(y, i + 1) ELSE i

RECURSIVE SkipNullDown(_, _)
SkipNullDown(y, j) ==
    IF j >= 0 /\ IsNullish(At(y, j)) THEN SkipNullDown(y, j - 1) ELSE j

\* line 1972-1973: the leading run takes the first valid value
fillLeading(y) ==
    LET i == SkipNullUp(y, 0)
    IN  IF i > 0 /\ i < Len(y)
        THEN [k \in 1..Len(y) |-> IF k - 1 < i THEN At(y, i) ELSE y[k]]
        ELSE y

\* line 1974-1975: the trailing run takes the last valid value
fillTrailing(y) ==
    LET j == SkipNullDown(y, Len(y) - 1)
    IN  IF j >= 0 /\ j < Len(y) - 1
        THEN [k \in 1..Len(y) |-> IF k - 1 > j THEN At(y, j) ELSE y[k]]
        ELSE y

\* fillInterior weighting by the index instead of the time
RECURSIVE fillInteriorByIndex(_, _, _)
fillInteriorByIndex(xp, y, a) ==
    IF a >= Len(y) THEN y
    ELSE IF IsNullish(At(y, a))
    THEN LET b == SkipNullUp(y, a)
             y0 == At(y, a - 1)
             y1 == At(y, b)
             filled == [k \in 1..Len(y) |->
                          IF k - 1 >= a /\ k - 1 < b
                          THEN Add(y0, Div(Mul(Sub(y1, y0), IntV(k - 1 - (a - 1))), IntV(b - (a - 1))))
                          ELSE y[k]]
         IN  fillInteriorByIndex(xp, filled, b + 1)
    ELSE fillInteriorByIndex(xp, y, a + 1)

\* fillInterior resuming one index too far after a run
RECURSIVE fillInteriorSkipAhead(_, _, _)
fillInteriorSkipAhead(xp, y, a) ==
    IF a >= Len(y) THEN y
    ELSE IF IsNullish(At(y, a))
    THEN LET b == SkipNullUp(y, a)
             y0 == At(y, a - 1)
             y1 == At(y, b)
             x0 == At(xp, a - 1)
             x1 == At(xp, b)
             filled == [k \in 1..Len(y) |->
                          IF k - 1 >= a /\ k - 1 < b
                          THEN Add(y0, Div(Mul(Sub(y1, y0), Sub(At(xp, k - 1), x0)), Sub(x1, x0)))
                          ELSE y[k]]
         IN  fillInteriorSkipAhead(xp, filled, b + 2)
    ELSE fillInteriorSkipAhead(xp, y, a + 1)

\* line 1976-1981: every remaining run a..b-1 is interpolated over the times
RECURSIVE fillInterior(_, _, _)
fillInterior(xp, y, a) ==
    IF a >= Len(y) THEN y
    ELSE IF IsNullish(At(y, a))
    THEN LET b == SkipNullUp(y, a)
             y0 == At(y, a - 1)
             y1 == At(y, b)
             x0 == At(xp, a - 1)
             x1 == At(xp, b)
             filled == [k \in 1..Len(y) |->
                          IF k - 1 >= a /\ k - 1 < b
                          THEN Add(y0, Div(Mul(Sub(y1, y0), Sub(At(xp, k - 1), x0)), Sub(x1, x0)))
                          ELSE y[k]]
         IN  fillInterior(xp, filled, b + 1)
    ELSE fillInterior(xp, y, a + 1)

fillNaLinear(xp, yp) == Array(fillInterior(xp, Array(fillTrailing(Array(fillLeading(yp)))), 0))

----------------------------------------------------------------------------
(* findLocalMinima(t, y, {prominence, minGapSec}) *)

\* line 1988-1990: the candidates, in increasing order
RECURSIVE minimaCandidates(_, _)
minimaCandidates(y, i) ==
    IF i >= Len(y) - 1 THEN <<>>
    ELSE IF Le(At(y, i), At(y, i - 1)) /\ Le(At(y, i), At(y, i + 1))
    THEN <<i>> \o minimaCandidates(y, i + 1)
    ELSE minimaCandidates(y, i + 1)

\* line 1994-1997
prominenceAt(y, i) ==
    LET left == IF i - PromWindow > 0 THEN i - PromWindow ELSE 0
        right == IF i + PromWindow < Len(y) - 1 THEN i + PromWindow ELSE Len(y) - 1
        leftMax == MaxOf(Slice(y, left, i))
        rightMax == MaxOf(Slice(y, i + 1, right + 1))
    IN  Min2(Sub(leftMax, At(y, i)), Sub(rightMax, At(y, i)))

\* line 1998: the test that keeps a candidate
keepsCandidate(t, y, i, lastKeepT, prominence, minGap) ==
    /\ Ge(prominenceAt(y, i), prominence)
    /\ Ge(Sub(At(t, i), lastKeepT), minGap)

\* keepLoop that never records the time of the minimum it keeps
RECURSIVE keepLoopNoUpdate(_, _, _, _, _, _)
keepLoopNoUpdate(t, y, idxs, lastKeepT, prominence, minGap) ==
    IF Len(idxs) = 0 THEN <<>>
    ELSE IF keepsCandidate(t, y, Head(idxs), lastKeepT, prominence, minGap)
    THEN <<Head(idxs)>> \o keepLoopNoUpdate(t, y, Tail(idxs), lastKeepT, prominence, minGap)
    ELSE keepLoopNoUpdate(t, y, Tail(idxs), lastKeepT, prominence, minGap)

\* line 1993-2002: greedy selection from left to right
RECURSIVE keepLoop(_, _, _, _, _, _)
keepLoop(t, y, idxs, lastKeepT, prominence, minGap) ==
    IF Len(idxs) = 0 THEN <<>>
    ELSE IF keepsCandidate(t, y, Head(idxs), lastKeepT, prominence, minGap)
    THEN <<Head(idxs)>> \o keepLoop(t, y, Tail(idxs), At(t, Head(idxs)), prominence, minGap)
    ELSE keepLoop(t, y, Tail(idxs), lastKeepT, prominence, minGap)

findLocalMinima(t, y, prominence, minGap) ==
    keepLoop(t, y, minimaCandidates(y, 1), IntV(NeverKept), prominence, minGap)

----------------------------------------------------------------------------
(* cyclesNormalize(times, values, peaks, N) *)

\* normGrid with one point too few
normGridShort(N) == Array([i \in 1..(N - 1) |-> Div(IntV(i - 1), IntV(N - 1))])

\* line 2011: Array.from({length: N}, (_, i) => i / (N - 1))
normGrid(N) == Array([i \in 1..N |-> Div(IntV(i - 1), IntV(N - 1))])

\* line 2010-2016: one cycle from t0 to t1
normalizeCycle(times, values, t0, t1, N) ==
    LET normT == normGrid(N)
    IN  [normT |-> normT,
         normV |-> Array([i \in 1..Len(normT) |->
                      linInterp(Add(t0, Mul(normT[i], Sub(t1, t0))), times, values)]),
         dur |-> Sub(t1, t0)]

\* cyclesNormalize that also opens a cycle at the last minimum
cyclesNormalizeOneMore(times, values, peaks, N) ==
    Array([c \in 1..Len(peaks) |->
        normalizeCycle(times, values, At(times, peaks[c]),
                       IF c < Len(peaks) THEN At(times, peaks[c + 1]) ELSE Undefined, N)])

cyclesNormalize(times, values, peaks, N) ==
    Array([c \in 1..(IF Len(peaks) > 0 THEN Len(peaks) - 1 ELSE 0) |->
        normalizeCycle(times, values, At(times, peaks[c]), At(times, peaks[c + 1]), N)])

----------------------------------------------------------------------------
(* rmse, avg, stdev *)

\* the sum of arr[lo..hi]; exact arithmetic, so the order of the additions is immaterial
RECURSIVE SumRange(_, _, _)
SumRange(arr, lo, hi) ==
    IF lo > hi THEN Zero
    ELSE IF lo = hi THEN Add(Zero, arr[lo])
    ELSE LET mid == (lo + hi) \div 2
         IN  Add(SumRange(arr, lo, mid), SumRange(arr, mid + 1, hi))

SumSeq(arr) == SumRange(arr, 1, Len(arr))

\* rmse without the guard on n = 0
rmseNoGuard(arr1, arr2) ==
    LET n == IF Len(arr1) < Len(arr2) THEN Len(arr1) ELSE Len(arr2)
        sq == [i \in 1..n |-> LET d == Sub(arr1[i], arr2[i]) IN Mul(d, d)]
    IN  Sqrt(Div(SumSeq(sq), IntV(n)))

rmse(arr1, arr2) ==
    LET n == IF Len(arr1) < Len(arr2) THEN Len(arr1) ELSE Len(arr2)
        sq == Array([i \in 1..n |-> LET d == Sub(arr1[i], arr2[i]) IN Mul(d, d)])
    IN  IF n = 0 THEN Null ELSE Sqrt(Div(SumSeq(sq), IntV(n)))

avg(arr) == Div(SumSeq(arr), IntV(Len(arr)))

stdev(arr) ==
    LET m == avg(arr)
    IN  Sqrt(avg([i \in 1..Len(arr) |-> LET d == Sub(arr[i], m) IN Mul(d, d)]))

----------------------------------------------------------------------------
(* State of the App component that the comparison reads and writes *)

\* no comparison function is under call on its own
FnIdle ==
    [name |-> "none", xp |-> <<>>, yp |-> <<>>, zp |-> <<>>,
     x |-> Zero, prominence |-> Zero, minGap |-> Zero, out |-> <<>>, out2 |-> <<>>]

\* Object.keys(metrics), in the order of the initial object (line 1413)
Channels == <<"kneeL", "kneeR", "hipL", "hipR", "trunk">>

ChannelSet == {Channels[i] : i \in 1..Len(Channels)}

DefaultMetrics == [k \in ChannelSet |-> k \in {"kneeL", "kneeR"}]

NotSaved == [saved |-> FALSE, rows |-> <<>>]

NoResult == [present |-> FALSE, labels |-> <<>>, datasets |-> <<>>]

NoRoleStats == [count |-> 0, avg |-> Undefined, sd |-> Undefined,
                min |-> Undefined, max |-> Undefined, cadence |-> Undefined]

NoStats == [present |-> FALSE, mode |-> "none", hasRoles |-> FALSE,
            ref |-> NoRoleStats, cmp |-> NoRoleStats]

\* samples.map(s => s.t) and samples.map(s => s[key] ?? null)
timesOf(rows) == Array([i \in 1..Len(rows) |-> rows[i].t])

columnOf(rows, key) == Array([i \in 1..Len(rows) |-> rows[i][key]])

\* Object.keys(metrics).filter(k => metrics[k])
metricsListOf(m) == SelectSeq(Channels, LAMBDA k : m[k])

Seconds(cs) == Div(cs, IntV(100))

\* roleStats with the cadence taken from the longest cycle
roleStatsCadenceOfMax(cycles) ==
    LET durs == Array([c \in 1..Len(cycles) |-> Seconds(cycles[c].dur)])
    IN  [count |-> Len(cycles),
         avg |-> avg(durs),
         sd |-> stdev(durs),
         min |-> MinOf(durs),
         max |-> MaxOf(durs),
         cadence |-> Div(IntV(60), MaxOf(durs))]

\* line 1746-1753: the statistics of one role over the cycle durations
roleStats(cycles) ==
    LET durs == Array([c \in 1..Len(cycles) |-> Seconds(cycles[c].dur)])
    IN  [count |-> Len(cycles),
         avg |-> avg(durs),
         sd |-> stdev(durs),
         min |-> MinOf(durs),
         max |-> MaxOf(durs),
         cadence |-> Div(IntV(60), avg(durs))]

\* line 1729-1732: the mean waveform, accumulated cycle by cycle
RECURSIVE accumulateMean(_, _, _)
accumulateMean(acc, cycles, c) ==
    IF c > Len(cycles) THEN acc
    ELSE LET normV == cycles[c].normV
             K == Len(cycles)
         IN  accumulateMean(
                Array([i \in 1..Len(acc) |->
                    IF i <= Len(normV) THEN Add(acc[i], Div(normV[i], IntV(K))) ELSE acc[i]]),
                cycles, c + 1)

meanWaveform(cycles, N) == accumulateMean(Array([i \in 1..N |-> Zero]), cycles, 1)

\* line 1736: normT.map(x => (x * 100).toFixed(0)), as the rounded integer
percentLabel(frac) == (2 * 100 * frac[2] + frac[3]) \div (2 * frac[3])

\* line 1734-1761: what a channel with cycles on both sides contributes
cycleOutcome(refC, cmpC, avgRef, avgCmp) ==
    [skipped |-> FALSE,
     rmse |-> rmse(avgRef, avgCmp),
     labels |-> Array([i \in 1..Len(refC[1].normT) |-> percentLabel(refC[1].normT[i])]),
     refData |-> avgRef,
     cmpData |-> avgCmp,
     statsRef |-> roleStats(refC),
     statsCmp |-> roleStats(cmpC)]

\* line 1726-1732: the channel is skipped unless both sides have a cycle
cycleAverages(refC, cmpC) ==
    IF ~(Len(refC) > 0 /\ Len(cmpC) > 0) THEN [skipped |-> TRUE]
    ELSE cycleOutcome(refC, cmpC,
                      meanWaveform(refC, Len(refC[1].normT)),
                      meanWaveform(cmpC, Len(refC[1].normT)))

\* line 1721-1725: the minima and the cycles of one series
cyclesOf(t, y) ==
    cyclesNormalize(t, y,
        findLocalMinima(t, y, IntV(CompareProminence), IntV(CompareMinGapCs)), GridN)

\* line 1719-1725: the channel is skipped when a side has no valid value
cycleSeries(refT, cmpT, refYraw, cmpYraw) ==
    IF Len(refYraw) = 0 \/ Len(cmpYraw) = 0 THEN [skipped |-> TRUE]
    ELSE cycleAverages(cyclesOf(refT, refYraw), cyclesOf(cmpT, cmpYraw))

\* line 1716-1761: one channel of the cycle mode
cycleChannel(refRows, cmpRows, key) ==
    cycleSeries(timesOf(refRows), timesOf(cmpRows),
                FilterNonNull(columnOf(refRows, key)),
                FilterNonNull(columnOf(cmpRows, key)))

\* line 1769-1789: one channel of the time mode
timeChannel(refRows, cmpRows, key) ==
    LET refT == timesOf(refRows)
        cmpT == timesOf(cmpRows)
        refY == columnOf(refRows, key)
        cmpYraw == columnOf(cmpRows, key)
        cmpYseries == fillNaLinear(cmpT, cmpYraw)
        cmpY == Array([i \in 1..Len(refT) |-> linInterp(refT[i], cmpT, cmpYseries)])
    IN  [skipped |-> FALSE,
         rmse |-> rmse(FilterNonNull(refY), FilterNonNull(cmpY)),
         refData |-> refY,
         cmpData |-> cmpY]

\* what one channel r adds to acc: res.labels, res.datasets, rmseRes and stats
collectChannel(acc, key, cycleMode, r) ==
    IF r.skipped THEN acc
    ELSE [labels |-> IF cycleMode THEN r.labels ELSE acc.labels,
          datasets |-> acc.datasets \o
                       <<[role |-> "ref", key |-> key, data |-> r.refData],
                         [role |-> "cmp", key |-> key, data |-> r.cmpData]>>,
          rmseRes |-> acc.rmseRes \o <<[key |-> key, v |-> r.rmse]>>,
          stats |-> IF cycleMode
                    THEN [acc.stats EXCEPT !.hasRoles = TRUE,
                                           !.ref = r.statsRef, !.cmp = r.statsCmp]
                    ELSE acc.stats]

\* the loop over metricsList
RECURSIVE compareLoop(_, _, _, _, _)
compareLoop(refRows, cmpRows, keys, cycleMode, acc) ==
    IF Len(keys) = 0 THEN acc
    ELSE compareLoop(refRows, cmpRows, Tail(keys), cycleMode,
            collectChannel(acc, Head(keys), cycleMode,
                IF cycleMode THEN cycleChannel(refRows, cmpRows, Head(keys))
                ELSE timeChannel(refRows, cmpRows, Head(keys))))

\* line 1706-1790: what one request computes before it publishes anything
computeCompare(refRows, cmpRows, m, cycleMode) ==
    compareLoop(refRows, cmpRows, metricsListOf(m), cycleMode,
        [labels |-> IF cycleMode THEN <<>>
                    ELSE Array([i \in 1..Len(refRows) |-> refRows[i].t[2]]),
         datasets |-> <<>>,
         rmseRes |-> <<>>,
         stats |-> [present |-> TRUE, mode |-> IF cycleMode THEN "cycle" ELSE "time",
                    hasRoles |-> FALSE, ref |-> NoRoleStats, cmp |-> NoRoleStats]])

(* The recorder and the frame loop of App.  Clock times are in             *)
(* milliseconds, a sample's t is in centiseconds.                          *)

\* the landmarks the frame step reads (line 1526-1528)
Landmarks == {"left_hip", "left_knee", "left_ankle", "right_hip", "right_knee",
              "right_ankle", "left_shoulder", "right_shoulder"}

\* the landmarks that enter the angle of a channel (line 1531-1538)
ownLandmarks(key) ==
    CASE key = "kneeL" -> {"left_hip", "left_knee", "left_ankle"}
      [] key = "kneeR" -> {"right_hip", "right_knee", "right_ankle"}
      [] key = "hipL" -> {"left_shoulder", "right_shoulder", "left_hip", "left_knee"}
      [] key = "hipR" -> {"left_shoulder", "right_shoulder", "right_hip", "right_knee"}
      [] OTHER -> {"left_shoulder", "right_shoulder", "left_hip", "right_hip"}

\* the landmarks that an occluded scene hides: one that only kneeL reads, one that
\* every channel but the knees reads
LowLandmarks == {"left_ankle", "right_shoulder"}

\* what estimatePoses resolves with: whether a pose with keypoints was found,
\* the landmarks that are missing or have a score of at most 0.3, and whether
\* the coordinates give finite angles
Poses ==
    [detected : BOOLEAN,
     low : {L \in SUBSET LowLandmarks : Cardinality(L) <= MaxLow},
     finite : BOOLEAN]

\* in a clear scene every pose is found, complete and gives finite angles
ClearPoses == {p \in Poses : p.detected /\ p.low = {} /\ p.finite}

posesIn(sc) == IF sc = "clear" THEN ClearPoses ELSE Poses

\* line 1534-1538: the angle of a channel in a pose; every channel has its own value
rawAngle(pose, key) ==
    IF pose.finite
    THEN IntV(LevelStep * (CHOOSE j \in 1..Len(Channels) : Channels[j] = key))
    ELSE NaN

\* line 1376-1381: movingAvg(buf, val, max); the buffer after the call and the value returned
movingAvgPush(buf, val) == IF ~IsNullish(val) /\ IsFinite(val) THEN Append(buf, val) ELSE buf

\* dropping the newest values instead of the oldest
movingAvgTrimNewest(buf, max) == IF Len(buf) > max THEN SubSeq(buf, 1, max) ELSE buf

movingAvgTrim(buf, max) == IF Len(buf) > max THEN SubSeq(buf, Len(buf) - max + 1, Len(buf)) ELSE buf

movingAvgMean(buf) == IF Len(buf) = 0 THEN Null ELSE Div(SumSeq(buf), IntV(Len(buf)))

movingAvg(buf, val, max) ==
    [buf |-> movingAvgTrim(movingAvgPush(buf, val), max),
     value |-> movingAvgMean(movingAvgTrim(movingAvgPush(buf, val), max))]

\* Math.abs on a number
MathAbs(a) == IF ToNumber(a)[1] # 1 THEN NaN ELSE <<1, Abs(ToNumber(a)[2]), ToNumber(a)[3]>>

\* line 1546-1547: the left-right difference, or null
absDiff(a, b) == IF ~IsNullish(a) /\ ~IsNullish(b) THEN MathAbs(Sub(a, b)) ELSE Null

\* line 1567: +t.toFixed(2) of t = ms / 1000, as the centiseconds it may give;
\* a tie falls to the side the binary representation of t happens to lie on
toFixed2(ms) ==
    IF ms % 10 < 5 THEN {ms \div 10}
    ELSE IF ms % 10 > 5 THEN {ms \div 10 + 1}
    ELSE {ms \div 10, ms \div 10 + 1}

SampleIntervalMs == 10 * SampleIntervalCs

\* sampling without the interval test
sampleDueAlways(clock, last) == TRUE

\* sampling at half the interval
sampleDueHalfInterval(clock, last) == 2 * (clock - last) >= SampleIntervalMs

\* line 1564: now - lastSampleTimeRef.current >= SAMPLE_INTERVAL_MS
sampleDue(clock, last) == clock - last >= SampleIntervalMs

\* line 1566-1572: the sample pushed for the smoothed values sm at t centiseconds
sampleOf(tcs, sm) ==
    [t |-> IntV(tcs),
     kneeL |-> sm["kneeL"], kneeR |-> sm["kneeR"],
     hipL |-> sm["hipL"], hipR |-> sm["hipR"],
     trunk |-> sm["trunk"],
     dKnee |-> absDiff(sm["kneeL"], sm["kneeR"]),
     dHip |-> absDiff(sm["hipL"], sm["hipR"])]

\* saving the buffer itself instead of a copy
copySharesBuffer == TRUE

\* line 1614: samplesRef.current.map(s => ({...s})) is a new array, never the buffer itself
copyShares == FALSE

\* line 1624, 1634: samplesRef.current = [] is a new array that no role holds
NoneShared == [ref |-> FALSE, cmp |-> FALSE]

NoFrame == [kind |-> "none", low |-> {}, computed |-> {}]

\* the state of the recorder and of the loop after construction and before the detector is ready
FrameIdle ==
    /\ now = 0
    /\ scene = "clear"
    /\ detectorRef = FALSE
    /\ useCamera = TRUE
    /\ srcObject = FALSE
    /\ liveStreams = 0
    /\ pendingMeta = {}
    /\ runningRef = FALSE
    /\ rafRef = FALSE
    /\ orphanFrames = 0
    /\ awaitingPose = 0
    /\ recording = FALSE
    /\ recordingRef = FALSE
    /\ samplesRef = <<>>
    /\ startTimeRef = 0
    /\ lastSampleTimeRef = 0
    /\ bufRef = [k \in ChannelSet |-> <<>>]
    /\ sharesBuffer = NoneShared
    /\ hist = [session |-> 0, toggledOnAt |-> 0, emitted |-> <<>>,
               stopped |-> FALSE, frame |-> NoFrame]

compareVars == <<fn, metrics, cycleNormalize, compareResult, compareStats, compareRmse, lastOp>>

cameraVars == <<scene, useCamera, srcObject, liveStreams, pendingMeta>>

recorderVars == <<recording, recordingRef, samplesRef, startTimeRef, lastSampleTimeRef,
                  bufRef, sharesBuffer>>

loopVars == <<runningRef, rafRef, orphanFrames, awaitingPose>>

\* the number of chains of render steps that are pending or suspended
chains == (IF rafRef THEN 1 ELSE 0) + orphanFrames + awaitingPose

\* rafRef.current = requestAnimationFrame(render), the handle held before being live or not
requestFrame(live, orphans) ==
    /\ rafRef' = TRUE
    /\ orphanFrames' = orphans + (IF live THEN 1 ELSE 0)

\* line 1504-1521: render up to its await, entered with the pending callbacks live, orphans
renderEnter(running, live, orphans) ==
    IF ~running
    THEN /\ rafRef' = live
         /\ orphanFrames' = orphans
         /\ UNCHANGED awaitingPose
    ELSE \E ready \in BOOLEAN :
            IF ~ready
            THEN /\ requestFrame(live, orphans)
                 /\ UNCHANGED awaitingPose
            ELSE /\ rafRef' = live
                 /\ orphanFrames' = orphans
                 /\ awaitingPose' = awaitingPose + 1

\* the detector of the mount effect becomes available (line 1443-1453)
DetectorReady ==
    /\ ~detectorRef
    /\ detectorRef' = TRUE
    /\ notice' = "none"
    /\ UNCHANGED hist
    /\ UNCHANGED <<compareVars, pitchVars, payVars, refSamples, cmpSamples, now, cameraVars, loopVars, recorderVars>>

\* line 1477-1487: loadFile, with or without a chosen file
LoadFile ==
    /\ useCamera' = FALSE
    /\ \E chosen \in BOOLEAN :
          pendingMeta' = IF chosen THEN pendingMeta \cup {"file"} ELSE pendingMeta
    /\ notice' = "none"
    /\ hist' = [hist EXCEPT !.stopped = FALSE]
    /\ UNCHANGED <<compareVars, pitchVars, payVars, refSamples, cmpSamples, now, scene, detectorRef, srcObject,
                   liveStreams, loopVars, recorderVars>>

\* line 1458-1475: startCamera; its button is disabled while useCamera holds (line 1809)
StartCamera ==
    /\ ~useCamera
    /\ liveStreams < MaxStreams
    /\ useCamera' = TRUE
    /\ \E granted \in BOOLEAN :
          IF granted
          THEN /\ srcObject' = TRUE
               /\ liveStreams' = liveStreams + 1
               /\ pendingMeta' = pendingMeta \cup {"camera"}
               /\ notice' = "none"
          ELSE /\ notice' = "noCamera"
               /\ UNCHANGED <<srcObject, liveStreams, pendingMeta>>
    /\ hist' = [hist EXCEPT !.stopped = FALSE]
    /\ UNCHANGED <<compareVars, pitchVars, payVars, refSamples, cmpSamples, now, scene, detectorRef, loopVars,
                   recorderVars>>

\* line 1474, 1486, 1497-1586: onloadedmetadata plays the video and calls startLoop
LoadedMetadata ==
    /\ \E el \in pendingMeta : pendingMeta' = pendingMeta \ {el}
    /\ chains < MaxLoops
    /\ IF ~detectorRef
       THEN UNCHANGED <<loopVars, hist>>
       ELSE /\ runningRef' = TRUE
            /\ renderEnter(TRUE, rafRef, orphanFrames)
            /\ hist' = [hist EXCEPT !.stopped = FALSE]
    /\ notice' = "none"
    /\ UNCHANGED <<compareVars, pitchVars, payVars, refSamples, cmpSamples, now, scene, detectorRef,
                   useCamera, srcObject, liveStreams, recorderVars>>

\* line 1489-1495: stop
Stop ==
    /\ runningRef' = FALSE
    /\ rafRef' = FALSE
    /\ srcObject' = FALSE
    /\ liveStreams' = IF srcObject THEN liveStreams - 1 ELSE liveStreams
    /\ notice' = "none"
    /\ hist' = [hist EXCEPT !.stopped = TRUE]
    /\ UNCHANGED <<compareVars, pitchVars, payVars, refSamples, cmpSamples, now, scene, detectorRef, useCamera,
                   pendingMeta, orphanFrames, awaitingPose, recorderVars>>

\* a pending frame callback runs render (line 1504-1521)
FrameCallback ==
    /\ \E held \in {h \in BOOLEAN : IF h THEN rafRef ELSE orphanFrames > 0} :
          renderEnter(runningRef,
                      IF held THEN FALSE ELSE rafRef,
                      IF held THEN orphanFrames ELSE orphanFrames - 1)
    /\ UNCHANGED <<compareVars, pitchVars, payVars, refSamples, cmpSamples, notice, now, detectorRef,
                   cameraVars, runningRef, recorderVars, hist>>

\* line 1562-1576: the recording block, for the smoothed values sm
recordSample(sm, frame) ==
    IF recordingRef /\ sampleDue(now, lastSampleTimeRef)
    THEN \E tcs \in toFixed2(now - startTimeRef) :
            /\ samplesRef' = Append(samplesRef, sampleOf(tcs, sm))
            /\ refSamples' = IF sharesBuffer.ref
                             THEN [refSamples EXCEPT !.rows = Append(@, sampleOf(tcs, sm))]
                             ELSE refSamples
            /\ cmpSamples' = IF sharesBuffer.cmp
                             THEN [cmpSamples EXCEPT !.rows = Append(@, sampleOf(tcs, sm))]
                             ELSE cmpSamples
            /\ lastSampleTimeRef' = now
            /\ hist' = [hist EXCEPT
                          !.emitted = Append(@, [at |-> now, session |-> hist.session]),
                          !.frame = frame]
    ELSE /\ hist' = [hist EXCEPT !.frame = frame]
         /\ UNCHANGED <<samplesRef, refSamples, cmpSamples, lastSampleTimeRef>>

\* line 1540-1544: the five smoothing buffers after the frame, and the smoothed values
smoothedBuffers(pose) ==
    [k \in ChannelSet |-> movingAvg(bufRef[k], rawAngle(pose, k), MovingAvgMax).buf]

smoothedValues(pose) ==
    [k \in ChannelSet |-> movingAvg(bufRef[k], rawAngle(pose, k), MovingAvgMax).value]

\* line 1522-1577: what the step does with the poses it awaited
processPose(pose) ==
    IF ~pose.detected
    THEN /\ hist' = [hist EXCEPT !.frame = [NoFrame EXCEPT !.kind = "noPose"]]
         /\ UNCHANGED <<samplesRef, refSamples, cmpSamples, lastSampleTimeRef, bufRef>>
    ELSE IF pose.low # {}
    THEN /\ hist' = [hist EXCEPT !.frame = [NoFrame EXCEPT !.kind = "gated", !.low = pose.low]]
         /\ UNCHANGED <<samplesRef, refSamples, cmpSamples, lastSampleTimeRef, bufRef>>
    ELSE /\ bufRef' = smoothedBuffers(pose)
         /\ recordSample(smoothedValues(pose),
                         [NoFrame EXCEPT !.kind = "angles", !.computed = ChannelSet])

\* line 1521-1583: estimatePoses resolves, the step goes on to its end
PoseResolves ==
    /\ awaitingPose > 0
    /\ \E pose \in posesIn(scene) : processPose(pose)
    /\ awaitingPose' = awaitingPose - 1
    /\ requestFrame(rafRef, orphanFrames)
    /\ notice' = "none"
    /\ UNCHANGED <<compareVars, pitchVars, payVars, now, detectorRef, cameraVars, runningRef,
                   recording, recordingRef, startTimeRef, sharesBuffer>>

\* line 1579-1583: estimatePoses rejects, the step catches and goes on to its end
PoseRejects ==
    /\ awaitingPose > 0
    /\ awaitingPose' = awaitingPose - 1
    /\ requestFrame(rafRef, orphanFrames)
    /\ notice' = "none"
    /\ hist' = [hist EXCEPT !.frame = [NoFrame EXCEPT !.kind = "rejected"]]
    /\ UNCHANGED <<compareVars, pitchVars, payVars, refSamples, cmpSamples, now, detectorRef, cameraVars, runningRef,
                   recorderVars>>

\* toggleRecord that keeps the buffer when recording starts
ToggleRecordKeepBuffer ==
    /\ recording \/ hist.session < MaxSessions
    /\ recording' = ~recording
    /\ IF ~recording
       THEN /\ startTimeRef' = now
            /\ lastSampleTimeRef' = 0
            /\ hist' = [hist EXCEPT !.session = @ + 1, !.toggledOnAt = now]
       ELSE UNCHANGED <<startTimeRef, lastSampleTimeRef, hist>>
    /\ notice' = "none"
    /\ UNCHANGED <<compareVars, pitchVars, payVars, refSamples, cmpSamples, now, detectorRef, cameraVars, loopVars,
                   recordingRef, samplesRef, bufRef, sharesBuffer>>

\* line 1620-1631: toggleRecord
ToggleRecord ==
    /\ recording \/ hist.session < MaxSessions
    /\ recording' = ~recording
    /\ IF ~recording
       THEN /\ samplesRef' = <<>>
            /\ sharesBuffer' = NoneShared
            /\ startTimeRef' = now
            /\ lastSampleTimeRef' = 0
            /\ hist' = [hist EXCEPT !.session = @ + 1, !.toggledOnAt = now,
                                    !.emitted = <<>>]
       ELSE UNCHANGED <<samplesRef, sharesBuffer, startTimeRef, lastSampleTimeRef, hist>>
    /\ notice' = "none"
    /\ UNCHANGED <<compareVars, pitchVars, payVars, refSamples, cmpSamples, now, detectorRef, cameraVars, loopVars,
                   recordingRef, bufRef>>

\* line 1436: the effect that copies recording to recordingRef.current
SyncRecordingRef ==
    /\ recordingRef # recording
    /\ recordingRef' = recording
    /\ UNCHANGED <<compareVars, pitchVars, payVars, refSamples, cmpSamples, notice, now, detectorRef, cameraVars, loopVars,
                   recording, samplesRef, startTimeRef, lastSampleTimeRef, bufRef, sharesBuffer, hist>>

\* line 1633-1638: clearRecord; its button is disabled while the buffer is empty (line 1834)
ClearRecord ==
    /\ Len(samplesRef) > 0
    /\ samplesRef' = <<>>
    /\ sharesBuffer' = NoneShared
    /\ startTimeRef' = 0
    /\ lastSampleTimeRef' = 0
    /\ notice' = "none"
    /\ hist' = [hist EXCEPT !.emitted = <<>>]
    /\ UNCHANGED <<compareVars, pitchVars, payVars, refSamples, cmpSamples, now, detectorRef, cameraVars, loopVars,
                   recording, recordingRef, bufRef>>

\* line 1609-1617: saveCurrentAs(role)
SaveCurrentAs(role) ==
    /\ IF Len(samplesRef) = 0
       THEN /\ notice' = "noRecording"
            /\ UNCHANGED <<refSamples, cmpSamples, sharesBuffer>>
       ELSE /\ notice' = "none"
            /\ refSamples' = IF role = "ref" THEN [saved |-> TRUE, rows |-> samplesRef]
                             ELSE refSamples
            /\ cmpSamples' = IF role = "cmp" THEN [saved |-> TRUE, rows |-> samplesRef]
                             ELSE cmpSamples
            /\ sharesBuffer' = [sharesBuffer EXCEPT ![role] = copyShares]
    /\ UNCHANGED hist
    /\ UNCHANGED <<compareVars, pitchVars, payVars, now, detectorRef, cameraVars, loopVars,
                   recording, recordingRef, samplesRef, startTimeRef, lastSampleTimeRef, bufRef>>

\* the runner moves into or out of full view
SceneChange ==
    /\ scene' = IF scene = "clear" THEN "occluded" ELSE "clear"
    /\ UNCHANGED <<compareVars, pitchVars, payVars, refSamples, cmpSamples, notice, now, detectorRef,
                   useCamera, srcObject, liveStreams, pendingMeta, loopVars, recorderVars, hist>>

\* performance.now() advances
Advance ==
    /\ now < MaxNowTicks * TickMs
    /\ now' = now + TickMs
    /\ UNCHANGED <<compareVars, pitchVars, payVars, refSamples, cmpSamples, notice, detectorRef, cameraVars,
                   loopVars, recorderVars, hist>>


----------------------------------------------------------------------------
(* The payment handlers: the tables, the requests and the sessions *)

Users == {"u1", "u2"}

\* a field the object does not carry, and the null the handler puts in its place
Missing == "undefined"

NullId == "null"

\* v || null, for the identifiers of the payload
orNull(v) == IF v = Missing THEN NullId ELSE v

\* new Date(ms).toISOString(): the text of the instant ms, kept as that instant
toISOString(ms) == <<5, ms, 1>>

NoRequest ==
    [json |-> TRUE, type |-> "none", identity |-> Missing, customer |-> Missing,
     subscription |-> Missing, periodEnd |-> Undefined, status |-> Missing, session |-> 0]

NoResponse == [statusCode |-> 0, body |-> "none"]

\* the invocation ended with an exception instead of a response
Thrown == [statusCode |-> 0, body |-> "thrown"]

PayIdle ==
    /\ entitlements = {}
    /\ delivered = NoRequest
    /\ webhookResponse = NoResponse
    /\ wallClock = 0
    /\ sessions = {}
    /\ checkoutResponse = NoResponse

----------------------------------------------------------------------------
(* The estimation loop of PitchCompare *)

Sides == {"left", "right"}

PowerSaveGapMs == 50

\* the state of PitchCompare after its first render and its effects (line 369-409, 490)
PitchIdle ==
    /\ pitchDetector = FALSE
    /\ powerSave = FALSE
    /\ pitchRaf = TRUE
    /\ pitchLastTs = 0
    /\ pitchPlaying = FALSE
    /\ videoActive = [s \in Sides |-> FALSE]
    /\ pitchCalls = [s \in Sides |-> 0]
    /\ pitchSeq = [s \in Sides |-> 0]
    /\ pitchUnhandled = FALSE

\* line 407-409, 490-492: the effect is cleaned up and runs again after a change of its dependencies
pitchEffectReruns ==
    /\ pitchRaf' = TRUE
    /\ pitchLastTs' = 0

\* line 399-404: createDetector resolves and the detector state is set
PitchDetectorReady ==
    /\ ~pitchDetector
    /\ pitchDetector' = TRUE
    /\ pitchEffectReruns
    /\ UNCHANGED <<powerSave, pitchPlaying, videoActive, pitchCalls, pitchSeq, pitchUnhandled>>
    /\ UNCHANGED <<compareVars, refSamples, cmpSamples, notice, frameVars, payVars>>

\* line 629: the power-save checkbox
SetPowerSave ==
    /\ powerSave' = ~powerSave
    /\ pitchEffectReruns
    /\ UNCHANGED <<pitchDetector, pitchPlaying, videoActive, pitchCalls, pitchSeq, pitchUnhandled>>
    /\ UNCHANGED <<compareVars, refSamples, cmpSamples, notice, frameVars, payVars>>

\* line 495-500: playPause
PlayPause ==
    /\ pitchPlaying' = ~pitchPlaying
    /\ videoActive' = [s \in Sides |-> ~pitchPlaying]
    /\ UNCHANGED <<pitchDetector, powerSave, pitchRaf, pitchLastTs, pitchCalls, pitchSeq,
                   pitchUnhandled>>
    /\ UNCHANGED <<compareVars, refSamples, cmpSamples, notice, frameVars, payVars>>

\* the video of a side reaches its end
VideoEnds(s) ==
    /\ videoActive[s]
    /\ videoActive' = [videoActive EXCEPT ![s] = FALSE]
    /\ UNCHANGED <<pitchDetector, powerSave, pitchRaf, pitchLastTs, pitchPlaying, pitchCalls,
                   pitchSeq, pitchUnhandled>>
    /\ UNCHANGED <<compareVars, refSamples, cmpSamples, notice, frameVars, payVars>>

\* line 425-427: analyzeOne up to its await, for every side
analyzeCalls == [s \in Sides |-> IF videoActive[s] THEN pitchCalls[s] + 1 ELSE pitchCalls[s]]

\* line 411-423: a pending step callback runs; it schedules the next one first
PitchStep ==
    /\ pitchRaf
    /\ pitchRaf' = TRUE
    /\ IF ~pitchDetector \/ (powerSave /\ now - pitchLastTs < PowerSaveGapMs)
       THEN UNCHANGED <<pitchLastTs, pitchCalls>>
       ELSE /\ \A s \in Sides : analyzeCalls[s] <= MaxPitchCalls
            /\ pitchLastTs' = now
            /\ pitchCalls' = analyzeCalls
    /\ UNCHANGED <<pitchDetector, powerSave, pitchPlaying, videoActive, pitchSeq, pitchUnhandled>>
    /\ UNCHANGED <<compareVars, refSamples, cmpSamples, notice, frameVars, payVars>>

\* line 427-449: estimatePoses resolves for a side, with or without a pose
PitchPoseResolves(s) ==
    /\ pitchCalls[s] > 0
    /\ pitchCalls' = [pitchCalls EXCEPT ![s] = @ - 1]
    /\ \E found \in BOOLEAN :
          IF found
          THEN /\ pitchSeq[s] < MaxPitchSeq
               /\ pitchSeq' = [pitchSeq EXCEPT ![s] = @ + 1]
          ELSE UNCHANGED pitchSeq
    /\ UNCHANGED <<pitchDetector, powerSave, pitchRaf, pitchLastTs, pitchPlaying, videoActive,
                   pitchUnhandled>>
    /\ UNCHANGED <<compareVars, refSamples, cmpSamples, notice, frameVars, payVars>>

\* a rejection that abandons the calls of the other side as well
PitchPoseRejectsAbandonsAll(s) ==
    /\ pitchCalls[s] > 0
    /\ pitchCalls' = [x \in Sides |-> IF x = s THEN pitchCalls[x] - 1 ELSE 0]
    /\ pitchUnhandled' = TRUE
    /\ UNCHANGED <<pitchDetector, powerSave, pitchRaf, pitchLastTs, pitchPlaying, videoActive,
                   pitchSeq>>
    /\ UNCHANGED <<compareVars, refSamples, cmpSamples, notice, frameVars, payVars>>

\* line 419-427: estimatePoses rejects for a side; analyzeOne, Promise.all and step have no catch
PitchPoseRejects(s) ==
    /\ pitchCalls[s] > 0
    /\ pitchCalls' = [pitchCalls EXCEPT ![s] = @ - 1]
    /\ pitchUnhandled' = TRUE
    /\ UNCHANGED <<pitchDetector, powerSave, pitchRaf, pitchLastTs, pitchPlaying, videoActive,
                   pitchSeq>>
    /\ UNCHANGED <<compareVars, refSamples, cmpSamples, notice, frameVars, payVars>>


(* Handlers *)

\* line 1792-1801: the failure path, or the publication of the three results
publishCompare(out) ==
    IF Len(out.datasets) = 0
    THEN /\ compareResult' = NoResult
         /\ compareStats' = NoStats
         /\ notice' = "noData"
         /\ UNCHANGED compareRmse
    ELSE /\ compareRmse' = out.rmseRes
         /\ compareResult' = [present |-> TRUE, labels |-> out.labels,
                              datasets |-> out.datasets]
         /\ compareStats' = out.stats
         /\ notice' = "none"

\* line 1702-1802
RunCompareMulti ==
    /\ fn = FnIdle
    /\ lastOp' = "compare"
    /\ IF ~refSamples.saved \/ ~cmpSamples.saved
       THEN /\ notice' = "none"
            /\ UNCHANGED <<compareResult, compareStats, compareRmse>>
       ELSE publishCompare(computeCompare(refSamples.rows, cmpSamples.rows,
                                          metrics, cycleNormalize))
    /\ UNCHANGED <<fn, refSamples, cmpSamples, metrics, cycleNormalize, frameVars, pitchVars,
                   payVars>>

\* line 1873: the cycle-normalisation checkbox is toggled
SetCycleNormalize ==
    /\ fn = FnIdle
    /\ cycleNormalize' = ~cycleNormalize
    /\ lastOp' = "setCycleNormalize"
    /\ notice' = "none"
    /\ UNCHANGED <<fn, refSamples, cmpSamples, metrics,
                   compareResult, compareStats, compareRmse, frameVars, pitchVars, payVars>>

----------------------------------------------------------------------------
(* The comparison functions called on their own: fn holds the arrays of    *)
(* the call, its scalar arguments and its result.                          *)

TimeGrid == {SampleIntervalCs * k : k \in 0..MaxTick}

\* strictly increasing sample times, as the recorder produces them
TimeArrays(n) ==
    {[i \in 1..n |-> IntV(s[i])] :
        s \in {q \in [1..n -> TimeGrid] : \A i \in 1..(n - 1) : q[i] < q[i + 1]}}

Levels == {IntV(LevelStep * k) : k \in 0..MaxLevel}

FiniteArrays(n) == [1..n -> Levels]

NullableArrays(n) == [1..n -> Levels \cup {Null}]

\* query times of linInterp: every half interval from before the first to after the last grid time
QueryTimes == {Num(SampleIntervalCs * k, 2) : k \in (-1)..(2 * MaxTick + 1)}

Prominences == {IntV(0), IntV(CompareProminence), IntV(DefaultProminence)}

MinGaps == {IntV(SampleIntervalCs), IntV(CompareMinGapCs), IntV(DefaultMinGapCs)}

AppIdle ==
    /\ FrameIdle
    /\ PitchIdle
    /\ PayIdle
    /\ refSamples = NotSaved
    /\ cmpSamples = NotSaved
    /\ metrics = DefaultMetrics
    /\ cycleNormalize = TRUE
    /\ compareResult = NoResult
    /\ compareStats = NoStats
    /\ compareRmse = <<>>
    /\ notice = "none"
    /\ lastOp = "init"

(* linInterp *)

InitInterp ==
    /\ AppIdle
    /\ \E n \in 1..MaxLen : \E t \in TimeArrays(n) : \E y \in FiniteArrays(n) :
          fn = [FnIdle EXCEPT !.xp = t, !.yp = y]

CallLinInterp ==
    /\ fn.name = "none"
    /\ \E q \in QueryTimes :
          fn' = [fn EXCEPT !.name = "linInterp", !.x = q, !.out = linInterp(q, fn.xp, fn.yp)]
    /\ UNCHANGED appVars

SpecInterp == InitInterp /\ [][CallLinInterp]_vars

(* fillNaLinear, once and a second time on its own result *)

InitFill ==
    /\ AppIdle
    /\ \E n \in 0..MaxLen : \E t \in TimeArrays(n) : \E y \in NullableArrays(n) :
          fn = [FnIdle EXCEPT !.xp = t, !.yp = y]

CallFillNaLinear ==
    /\ fn.name = "none"
    /\ fn' = [fn EXCEPT !.name = "fillNaLinear", !.out = fillNaLinear(fn.xp, fn.yp)]
    /\ UNCHANGED appVars

CallFillNaLinearAgain ==
    /\ fn.name = "fillNaLinear"
    /\ fn' = [fn EXCEPT !.name = "fillNaLinearTwice", !.out2 = fillNaLinear(fn.xp, fn.out)]
    /\ UNCHANGED appVars

SpecFill == InitFill /\ [][CallFillNaLinear \/ CallFillNaLinearAgain]_vars

(* findLocalMinima *)

InitMinima ==
    /\ AppIdle
    /\ \E n \in 3..MaxLen : \E t \in TimeArrays(n) : \E y \in FiniteArrays(n) :
          fn = [FnIdle EXCEPT !.xp = t, !.yp = y]

CallFindLocalMinima ==
    /\ fn.name = "none"
    /\ \E p \in Prominences : \E g \in MinGaps :
          fn' = [fn EXCEPT !.name = "findLocalMinima", !.prominence = p, !.minGap = g,
                           !.out = findLocalMinima(fn.xp, fn.yp, p, g)]
    /\ UNCHANGED appVars

SpecMinima == InitMinima /\ [][CallFindLocalMinima]_vars

(* rmse *)

InitRmse ==
    /\ AppIdle
    /\ \E n \in 0..RmseLen : \E m \in 0..RmseLen : \E a \in FiniteArrays(n) : \E b \in FiniteArrays(m) :
          fn = [FnIdle EXCEPT !.yp = a, !.zp = b]

CallRmse ==
    /\ fn.name = "none"
    /\ fn' = [fn EXCEPT !.name = "rmse", !.out = rmse(fn.yp, fn.zp)]
    /\ UNCHANGED appVars

CallRmseSelf ==
    /\ fn.name = "none"
    /\ fn' = [fn EXCEPT !.name = "rmseSelf", !.out = rmse(fn.yp, fn.yp)]
    /\ UNCHANGED appVars

SpecRmse == InitRmse /\ [][CallRmse \/ CallRmseSelf]_vars

----------------------------------------------------------------------------
(* Properties of the comparison functions *)

SetMax(S) == CHOOSE m \in S : \A k \in S : k <= m
SetMin(S) == CHOOSE m \in S : \A k \in S : m <= k

\* C3: findLocalMinima returns indices in strictly increasing order, the times
\* of two consecutive returned indices differ by at least minGapSec, and the
\* selection is greedy from the left: a candidate that passes the prominence
\* test is kept exactly when no minimum was kept before it or it lies at least
\* minGapSec after the last kept one, whatever its prominence.
MinimaGapGreedy ==
    fn.name = "findLocalMinima" =>
        LET kept == fn.out
            cands == {i \in 1..(Len(fn.yp) - 2) :
                        /\ Le(fn.yp[i + 1], fn.yp[i]) /\ Le(fn.yp[i + 1], fn.yp[i + 2])
                        /\ Ge(prominenceAt(fn.yp, i), fn.prominence)}
            keptSet == {kept[j] : j \in 1..Len(kept)}
        IN  /\ \A j \in 1..(Len(kept) - 1) :
                  /\ kept[j] < kept[j + 1]
                  /\ Ge(Sub(fn.xp[kept[j + 1] + 1], fn.xp[kept[j] + 1]), fn.minGap)
            /\ keptSet \subseteq cands
            /\ \A i \in cands :
                  LET before == {k \in keptSet : k < i}
                  IN  i \in keptSet <=>
                         \/ before = {}
                         \/ Ge(Sub(fn.xp[i + 1], fn.xp[SetMax(before) + 1]), fn.minGap)

\* a candidate was dropped inside the gap although it is more prominent than the kept minimum before it
MinimaDroppedMoreProminent ==
    /\ fn.name = "findLocalMinima"
    /\ Len(fn.out) >= 1
    /\ \E i \in 1..(Len(fn.yp) - 2) :
          /\ i > fn.out[1]
          /\ \A j \in 1..Len(fn.out) : fn.out[j] # i
          /\ Le(fn.yp[i + 1], fn.yp[i]) /\ Le(fn.yp[i + 1], fn.yp[i + 2])
          /\ Lt(prominenceAt(fn.yp, fn.out[1]), prominenceAt(fn.yp, i))
          /\ Lt(Sub(fn.xp[i + 1], fn.xp[fn.out[1] + 1]), fn.minGap)

\* C6: for a query at or before the first time, or at or after the last time,
\* linInterp returns exactly the first, respectively the last, value.
InterpClampsAtEnds ==
    fn.name = "linInterp" =>
        /\ Le(fn.x, fn.xp[1]) => fn.out = fn.yp[1]
        /\ Ge(fn.x, fn.xp[Len(fn.xp)]) => fn.out = fn.yp[Len(fn.yp)]

\* a query beyond the last sample of a series whose last two values differ
InterpClampedBeyondLast ==
    /\ fn.name = "linInterp"
    /\ Len(fn.xp) >= 2
    /\ Lt(fn.xp[Len(fn.xp)], fn.x)
    /\ fn.yp[Len(fn.yp)] # fn.yp[Len(fn.yp) - 1]
    /\ fn.out = fn.yp[Len(fn.yp)]

FillIdempotent ==
    fn.name = "fillNaLinearTwice" => fn.out2 = fn.out

\* the second application ran on an array that had two separate interior runs of null
FillTwiceOnInteriorRuns ==
    /\ fn.name = "fillNaLinearTwice"
    /\ Len(fn.yp) >= 5
    /\ ~IsNullish(fn.yp[1]) /\ IsNullish(fn.yp[2]) /\ ~IsNullish(fn.yp[3])
    /\ IsNullish(fn.yp[4]) /\ ~IsNullish(fn.yp[5])
    /\ fn.out # fn.yp

\* C9: on an array with a valid entry fillNaLinear returns an array of the same
\* length without null, equal to the input where the input is valid, equal to
\* the nearest valid value on the leading and on the trailing run, and on an
\* interior null at k equal to the line through the two bounding valid
\* entries, taken at the time of k.
FillShape ==
    LET y == fn.yp
        t == fn.xp
        o == fn.out
        valid == {k \in 1..Len(y) : ~IsNullish(y[k])}
    IN  (fn.name \in {"fillNaLinear", "fillNaLinearTwice"} /\ valid # {}) =>
            /\ Len(o) = Len(y)
            /\ \A k \in 1..Len(y) :
                  /\ IsFinite(o[k])
                  /\ k \in valid => o[k] = y[k]
                  /\ k < SetMin(valid) => o[k] = y[SetMin(valid)]
                  /\ k > SetMax(valid) => o[k] = y[SetMax(valid)]
                  /\ (k \notin valid /\ k > SetMin(valid) /\ k < SetMax(valid)) =>
                        LET lo == SetMax({v \in valid : v < k})
                            hi == SetMin({v \in valid : v > k})
                        IN  o[k] = Add(y[lo], Div(Mul(Sub(y[hi], y[lo]), Sub(t[k], t[lo])),
                                                  Sub(t[hi], t[lo])))

\* an interior run of two nulls bridged over unevenly spaced times, with a leading null before it
FillBridgesUnevenGap ==
    /\ fn.name = "fillNaLinear"
    /\ Len(fn.yp) = 5
    /\ IsNullish(fn.yp[1]) /\ ~IsNullish(fn.yp[2]) /\ IsNullish(fn.yp[3])
    /\ IsNullish(fn.yp[4]) /\ ~IsNullish(fn.yp[5])
    /\ fn.yp[2] # fn.yp[5]
    /\ Sub(fn.xp[3], fn.xp[2]) # Sub(fn.xp[4], fn.xp[3])
    /\ fn.out[1] = fn.yp[2]
    /\ IsFinite(fn.out[3]) /\ IsFinite(fn.out[4])

\* C10: rmse(a, a) is 0 for every non-empty array of finite values, and rmse
\* returns null exactly when one of its two arrays is empty.
RmseSelfZeroNullIffEmpty ==
    /\ (fn.name = "rmseSelf" /\ Len(fn.yp) > 0) => fn.out = Zero
    /\ fn.name = "rmseSelf" => (fn.out = Null <=> Len(fn.yp) = 0)
    /\ fn.name = "rmse" => (fn.out = Null <=> (Len(fn.yp) = 0 \/ Len(fn.zp) = 0))

\* rmse of an array of differing values with itself
RmseSelfOnVaryingArray ==
    /\ fn.name = "rmseSelf"
    /\ Len(fn.yp) = RmseLen
    /\ fn.yp[1] # fn.yp[2]
    /\ fn.out = Zero

----------------------------------------------------------------------------
(* The comparison on saved series.  A saved series is a copy of the sample *)
(* buffer: strictly increasing times, and in every channel a finite        *)
(* smoothed angle, or null while the channel's smoothing buffer is still   *)
(* empty (movingAvg, line 1376-1381), that is in a leading run only.       *)

SeriesStepCs == 2 * SampleIntervalCs

HiLevel == IntV(MaxLevel * LevelStep)
LoLevel == IntV(0)

\* the value of sample i (counted from 0) in a channel of the given shape:
\*   0  oscillation that starts high      1  oscillation that starts low
\*   2  constant                          3  never valid
\*   4  oscillation that starts high, after lead samples of null
\*   5  constant but for a single dip
shapeValue(shape, lead, i) ==
    CASE shape = 0 -> IF i % 2 = 0 THEN HiLevel ELSE LoLevel
      [] shape = 1 -> IF i % 2 = 0 THEN LoLevel ELSE HiLevel
      [] shape = 2 -> HiLevel
      [] shape = 3 -> Null
      [] shape = 4 -> IF i < lead THEN Null ELSE IF i % 2 = 0 THEN HiLevel ELSE LoLevel
      [] OTHER -> IF i = 2 THEN LoLevel ELSE HiLevel

\* the shape of a channel: the channels take the shapes rot, rot + 1, ... in their order
channelShape(key, rot) ==
    LET j == CHOOSE i \in 1..Len(Channels) : Channels[i] = key
    IN  (j - 1 + rot) % (Len(Channels) + 1)

recordedSeries(n, lead, rot) ==
    [i \in 1..n |->
        [t |-> IntV((i - 1) * SeriesStepCs),
         kneeL |-> shapeValue(channelShape("kneeL", rot), lead, i - 1),
         kneeR |-> shapeValue(channelShape("kneeR", rot), lead, i - 1),
         hipL |-> shapeValue(channelShape("hipL", rot), lead, i - 1),
         hipR |-> shapeValue(channelShape("hipR", rot), lead, i - 1),
         trunk |-> shapeValue(channelShape("trunk", rot), lead, i - 1)]]

\* the reference recordings, with every length of the leading run, and the
\* candidate recordings, which deal the shapes to the channels in two ways
SavedReferences ==
    {[saved |-> TRUE, rows |-> recordedSeries(MaxSeriesLen, lead, 0)] : lead \in 0..MaxLead}

SavedCandidates ==
    {[saved |-> TRUE, rows |-> recordedSeries(MaxSeriesLen, MaxLead, rot)] : rot \in {0, 1}}

\* the time of sample i (counted from 0) of a recording whose frames arrive
\* ever more slowly: the gaps are 1, 1, 2, 2, 3, 3, ... times SeriesStepCs
RECURSIVE unevenTime(_)
unevenTime(i) == IF i = 0 THEN 0 ELSE unevenTime(i - 1) + SeriesStepCs * ((i + 1) \div 2)

\* a recording with the values of recordedSeries at the times unevenTime
unevenSeries(n, lead, rot) ==
    [i \in 1..n |-> [recordedSeries(n, lead, rot)[i] EXCEPT !.t = IntV(unevenTime(i - 1))]]

\* the reference recording with unevenly spaced samples
UnevenReferences == {[saved |-> TRUE, rows |-> unevenSeries(MaxSeriesLen, 0, 0)]}

\* the states of the metric checkboxes with at most MaxRequested channels enabled
RequestedMetrics ==
    {m \in [ChannelSet -> BOOLEAN] : Cardinality({k \in ChannelSet : m[k]}) <= MaxRequested}

InitCompare ==
    /\ fn = FnIdle
    /\ FrameIdle
    /\ PitchIdle
    /\ PayIdle
    /\ refSamples \in SavedReferences \cup UnevenReferences \cup {NotSaved}
    /\ cmpSamples \in SavedCandidates \cup {NotSaved}
    /\ metrics \in RequestedMetrics
    /\ cycleNormalize \in BOOLEAN
    /\ compareResult = NoResult
    /\ compareStats = NoStats
    /\ compareRmse = <<>>
    /\ notice = "none"
    /\ lastOp = "init"

NextCompare == RunCompareMulti \/ SetCycleNormalize

SpecCompare == InitCompare /\ [][NextCompare]_vars

----------------------------------------------------------------------------
(* The App component at work: the detector, the video sources and the     *)
(* render loop, in a scene that changes.  The recorder has a specification *)
(* of its own, SpecRecorder, below.                                        *)

Init ==
    /\ fn = FnIdle
    /\ AppIdle

Next ==
    \/ DetectorReady
    \/ LoadFile
    \/ StartCamera
    \/ LoadedMetadata
    \/ Stop
    \/ FrameCallback
    \/ PoseResolves
    \/ PoseRejects
    \/ SceneChange

Spec == Init /\ [][Next]_vars

\* The recorder on its own.  A file is being analysed in a clear scene: the
\* detector is ready, one chain of render steps runs and the smoothing
\* buffers are full.  The steps of one chain give every sequence of frame
\* steps, and no handler of the sources or of the loop writes the recorder.
smoothedFull == [k \in ChannelSet |->
                    [i \in 1..MovingAvgMax |-> rawAngle(CHOOSE p \in ClearPoses : TRUE, k)]]

InitRecorder ==
    /\ fn = FnIdle
    /\ refSamples = NotSaved
    /\ cmpSamples = NotSaved
    /\ metrics = DefaultMetrics
    /\ cycleNormalize = TRUE
    /\ compareResult = NoResult
    /\ compareStats = NoStats
    /\ compareRmse = <<>>
    /\ notice = "none"
    /\ lastOp = "init"
    /\ PitchIdle
    /\ PayIdle
    /\ now = 0
    /\ scene = "clear"
    /\ detectorRef = TRUE
    /\ useCamera = FALSE
    /\ srcObject = FALSE
    /\ liveStreams = 0
    /\ pendingMeta = {}
    /\ runningRef = TRUE
    /\ rafRef = TRUE
    /\ orphanFrames = 0
    /\ awaitingPose = 0
    /\ recording = FALSE
    /\ recordingRef = FALSE
    /\ samplesRef = <<>>
    /\ startTimeRef = 0
    /\ lastSampleTimeRef = 0
    /\ bufRef = smoothedFull
    /\ sharesBuffer = NoneShared
    /\ hist = [session |-> 0, toggledOnAt |-> 0, emitted |-> <<>>,
               stopped |-> FALSE,
               frame |-> [NoFrame EXCEPT !.kind = "angles", !.computed = ChannelSet]]

NextRecorder ==
    \/ FrameCallback
    \/ PoseResolves
    \/ ToggleRecord
    \/ SyncRecordingRef
    \/ ClearRecord
    \/ SaveCurrentAs("ref")
    \/ SaveCurrentAs("cmp")
    \/ Advance

SpecRecorder == InitRecorder /\ [][NextRecorder]_vars

\* PitchCompare and its estimation loop
InitPitch ==
    /\ fn = FnIdle
    /\ AppIdle

NextPitch ==
    \/ PitchDetectorReady
    \/ SetPowerSave
    \/ PlayPause
    \/ \E s \in Sides : VideoEnds(s)
    \/ PitchStep
    \/ \E s \in Sides : PitchPoseResolves(s)
    \/ \E s \in Sides : PitchPoseRejects(s)
    \/ Advance

SpecPitch == InitPitch /\ [][NextPitch]_vars

----------------------------------------------------------------------------
(* Properties of the comparison *)

hasData(series, key) ==
    \E i \in 1..Len(series.rows) : ~IsNullish(series.rows[i][key])

requested == {k \in ChannelSet : metrics[k]}

resultKeys == {compareResult.datasets[i].key : i \in 1..Len(compareResult.datasets)}

rmseKeys == {compareRmse[i].key : i \in 1..Len(compareRmse)}

datasetOf(role, key) ==
    LET i == CHOOSE j \in 1..Len(compareResult.datasets) :
                 compareResult.datasets[j].role = role /\ compareResult.datasets[j].key = key
    IN  compareResult.datasets[i].data

rmseOf(key) ==
    LET i == CHOOSE j \in 1..Len(compareRmse) : compareRmse[j].key = key
    IN  compareRmse[i].v

compareRan == lastOp = "compare" /\ refSamples.saved /\ cmpSamples.saved

\* the minima the cycle mode detects in one channel of a saved series
detectedMinima(series, key) ==
    findLocalMinima(timesOf(series.rows), FilterNonNull(columnOf(series.rows, key)),
                    IntV(CompareProminence), IntV(CompareMinGapCs))

\* C1: in both modes a requested channel without a valid sample in the
\* reference or in the candidate is skipped (no RMSE entry, no pair of aligned
\* series), and when every requested channel is skipped the request reports
\* "no comparable data" and stores no result.
SkipsChannelsWithoutData ==
    compareRan =>
        /\ \A k \in requested :
              (~hasData(refSamples, k) \/ ~hasData(cmpSamples, k)) =>
                  (compareResult.present => (k \notin resultKeys /\ k \notin rmseKeys))
        /\ (\A k \in requested : ~hasData(refSamples, k) \/ ~hasData(cmpSamples, k)) =>
              (~compareResult.present /\ notice = "noData")

\* the RMSE over the positions at which both aligned series are valid
pairedRmse(a, b) ==
    LET idx == SelectSeq([i \in 1..Len(a) |-> i],
                         LAMBDA i : i <= Len(b) /\ ~IsNullish(a[i]) /\ ~IsNullish(b[i]))
    IN  rmse([j \in 1..Len(idx) |-> a[idx[j]]], [j \in 1..Len(idx) |-> b[idx[j]]])

\* C2: in time mode the RMSE of a channel is taken over the positions of the
\* reference time grid at which the reference value and the resampled
\* candidate value are both valid, each reference value paired with the
\* candidate value resampled at its own time.
TimeRmsePairsByPosition ==
    (compareRan /\ ~cycleNormalize /\ compareResult.present) =>
        \A k \in rmseKeys : rmseOf(k) = pairedRmse(datasetOf("ref", k), datasetOf("cmp", k))

\* C4: in cycle mode, when both series yield at least two minima for a
\* requested channel, the reference and the candidate mean waveform of that
\* channel both have exactly GridN points, whatever the numbers of cycles.
CycleWaveformsHaveGridLength ==
    (compareRan /\ cycleNormalize) =>
        \A k \in requested :
            (Len(detectedMinima(refSamples, k)) >= 2 /\ Len(detectedMinima(cmpSamples, k)) >= 2) =>
                /\ compareResult.present
                /\ k \in resultKeys
                /\ Len(datasetOf("ref", k)) = GridN
                /\ Len(datasetOf("cmp", k)) = GridN

\* a cycle-mode result for a channel with two reference cycles and one candidate cycle
CycleResultWithUnequalCycleCounts ==
    /\ compareRan /\ cycleNormalize /\ compareResult.present
    /\ \E k \in requested :
          /\ Len(detectedMinima(refSamples, k)) = 3
          /\ Len(detectedMinima(cmpSamples, k)) = 2
          /\ k \in resultKeys
          /\ Len(datasetOf("ref", k)) = GridN

\* C5: in cycle mode a series with fewer than two kept minima yields no cycle,
\* its channel is skipped, and when no requested channel remains the request
\* ends with the compare result and the statistics cleared and the "no
\* comparable data" notice.
FewMinimaGiveNoCycles ==
    (compareRan /\ cycleNormalize) =>
        LET few(series, k) == Len(detectedMinima(series, k)) < 2
            cyclesIn(series, k) ==
                cyclesNormalize(timesOf(series.rows), FilterNonNull(columnOf(series.rows, k)),
                                detectedMinima(series, k), GridN)
        IN  /\ \A k \in requested :
                  /\ few(refSamples, k) => Len(cyclesIn(refSamples, k)) = 0
                  /\ few(cmpSamples, k) => Len(cyclesIn(cmpSamples, k)) = 0
                  /\ (few(refSamples, k) \/ few(cmpSamples, k)) =>
                        (compareResult.present => k \notin resultKeys)
            /\ (\A k \in requested : few(refSamples, k) \/ few(cmpSamples, k)) =>
                  /\ ~compareResult.present
                  /\ ~compareStats.present
                  /\ notice = "noData"

\* a cycle-mode request on two channels that both lack minima in one series ended without result
CycleRequestWithoutCycles ==
    /\ compareRan /\ cycleNormalize
    /\ Cardinality(requested) = 2
    /\ \E k \in requested : hasData(refSamples, k) /\ hasData(cmpSamples, k)
    /\ \E k \in requested : Len(detectedMinima(cmpSamples, k)) = 1
    /\ \A k \in requested :
          Len(detectedMinima(refSamples, k)) < 2 \/ Len(detectedMinima(cmpSamples, k)) < 2
    /\ ~compareResult.present /\ ~compareStats.present /\ notice = "noData"

\* the key of the last channel a cycle-mode request did not skip: its
\* statistics are the ones the request stores
lastResultKey == compareResult.datasets[Len(compareResult.datasets)].key

\* the durations, in seconds, between the consecutive minima of a channel
minimaDurations(series, key) ==
    LET T == timesOf(series.rows)
        m == detectedMinima(series, key)
    IN  [c \in 1..(Len(m) - 1) |-> Seconds(Sub(At(T, m[c + 1]), At(T, m[c])))]

\* count, avg, min, max, sd and cadence of st are those of the durations durs
statsOfDurations(st, durs) ==
    /\ st.count = Len(durs)
    /\ \A c \in 1..Len(durs) : Lt(Zero, durs[c])
    /\ Mul(st.avg, IntV(Len(durs))) = SumSeq(durs)
    /\ \E c \in 1..Len(durs) : st.min = durs[c]
    /\ \E c \in 1..Len(durs) : st.max = durs[c]
    /\ \A c \in 1..Len(durs) : Le(st.min, durs[c]) /\ Le(durs[c], st.max)
    /\ st.sd = Sqrt(Sub(Div(SumSeq([c \in 1..Len(durs) |-> Mul(durs[c], durs[c])]),
                             IntV(Len(durs))),
                         Mul(st.avg, st.avg)))
    /\ Mul(st.cadence, st.avg) = IntV(60)

\* C11: in a cycle-mode result the statistics of each role are those of the
\* durations t1 - t0, in seconds, between its consecutive detected minima:
\* count is their number, avg, sd, min and max are taken over them, cadence
\* is 60 / avg, and every duration is positive.
CycleStatsFromDurations ==
    (compareRan /\ cycleNormalize /\ compareResult.present) =>
        /\ compareStats.present /\ compareStats.mode = "cycle" /\ compareStats.hasRoles
        /\ statsOfDurations(compareStats.ref, minimaDurations(refSamples, lastResultKey))
        /\ statsOfDurations(compareStats.cmp, minimaDurations(cmpSamples, lastResultKey))

\* a cycle-mode result whose reference has cycles of 0.6 s and 1.0 s: mean 0.8 s, cadence 75
CadenceOfUnevenCycles ==
    /\ compareRan /\ cycleNormalize /\ compareResult.present
    /\ compareStats.ref.count = 2
    /\ compareStats.ref.min = Num(3, 5)
    /\ compareStats.ref.max = IntV(1)
    /\ compareStats.ref.avg = Num(4, 5)
    /\ compareStats.ref.cadence = IntV(75)

----------------------------------------------------------------------------
(* The recorder *)

increasingT(rows) == \A i \in 1..(Len(rows) - 1) : Lt(rows[i].t, rows[i + 1].t)

\* C12: in every reachable state, whatever the interleaving of frame steps,
\* toggleRecord, clearRecord and saveCurrentAs, the t values of the sample
\* buffer and of each saved series are strictly increasing.
SeriesTimesIncrease ==
    /\ increasingT(samplesRef)
    /\ increasingT(refSamples.rows)
    /\ increasingT(cmpSamples.rows)

\* two samples in the buffer and in the saved reference, beside a shorter saved comparison
TwoSamplesRecordedAndSaved ==
    /\ Len(samplesRef) = 2
    /\ refSamples.saved /\ refSamples.rows = samplesRef
    /\ cmpSamples.saved /\ Len(cmpSamples.rows) = 1

SampleTimeSinceToggleOn ==
    /\ Len(hist.emitted) = Len(samplesRef)
    /\ \A i \in 1..Len(samplesRef) :
          \E tcs \in toFixed2(hist.emitted[i].at - hist.toggledOnAt) :
              samplesRef[i].t = IntV(tcs)

\* C15: toggleRecord from on to off leaves the sample buffer and both time
\* anchors unchanged; toggleRecord from off to on empties the buffer, sets
\* the session start time to now and the last-sample time to 0; so the
\* samples of the buffer all belong to one recording session.
ToggleKeepsOrResets ==
    /\ [][/\ (recording /\ ~recording') =>
                UNCHANGED <<samplesRef, startTimeRef, lastSampleTimeRef>>
          /\ (~recording /\ recording') =>
                /\ samplesRef' = <<>>
                /\ startTimeRef' = now
                /\ lastSampleTimeRef' = 0]_vars
    /\ [](/\ Len(hist.emitted) = Len(samplesRef)
          /\ \A i, j \in 1..Len(hist.emitted) :
                hist.emitted[i].session = hist.emitted[j].session)

\* the second session was toggled off with its sample in the buffer; the
\* sample saved in the first session is not in the buffer
SecondSessionKeptAfterOff ==
    /\ ~recording
    /\ hist.session = 2
    /\ Len(samplesRef) = 1 /\ hist.emitted[1].session = 2
    /\ refSamples.saved /\ refSamples.rows[1].t # samplesRef[1].t
    /\ startTimeRef = hist.toggledOnAt /\ startTimeRef > 0

\* C16: the series stored for a role changes only in a step that stores a
\* copy of the current buffer for that role, and such a step changes neither
\* the buffer nor the series of the other role; no frame step, toggleRecord
\* or clearRecord changes a stored series.
SavedSeriesImmutable ==
    [][/\ refSamples' # refSamples =>
              /\ refSamples' = [saved |-> TRUE, rows |-> samplesRef]
              /\ UNCHANGED <<samplesRef, cmpSamples>>
       /\ cmpSamples' # cmpSamples =>
              /\ cmpSamples' = [saved |-> TRUE, rows |-> samplesRef]
              /\ UNCHANGED <<samplesRef, refSamples>>]_vars

\* both roles hold a saved series, and the buffer has since been cleared and refilled
BufferMovedOnAfterSaves ==
    /\ refSamples.saved /\ cmpSamples.saved
    /\ refSamples.rows # cmpSamples.rows
    /\ Len(samplesRef) > 0
    /\ samplesRef # refSamples.rows /\ samplesRef # cmpSamples.rows
    /\ sharesBuffer = NoneShared

----------------------------------------------------------------------------
(* The render loop *)

\* C17: in every frame with a pose, a channel has a computed angle exactly
\* when all of its own landmarks meet the confidence threshold, whatever the
\* confidence of the landmarks that only other channels read.
ChannelsGatedByOwnLandmarks ==
    hist.frame.kind \in {"gated", "angles"} =>
        \A k \in ChannelSet :
            k \in hist.frame.computed <=> ownLandmarks(k) \cap hist.frame.low = {}

\* C19: after stop(), and until a loop is started again, no frame callback is
\* scheduled or pending, whatever the loop was doing when stop() was called,
\* and the camera stream is detached with its tracks stopped.
StopHaltsLoop ==
    hist.stopped =>
        /\ ~rafRef
        /\ orphanFrames = 0
        /\ ~srcObject
        /\ liveStreams = 0

----------------------------------------------------------------------------
(* The estimation loop of PitchCompare *)

\* C18: the next frame step is scheduled only after the pose-estimation call
\* of the current step has resolved, so at every moment at most one
\* pose-estimation call is outstanding per video source.
OnePoseCallPerSource == \A s \in Sides : pitchCalls[s] <= 1

\* C20: when the pose-estimation call of a frame step rejects, the step
\* catches it: nothing propagates out of the step.
RejectedPoseIsCaught == ~pitchUnhandled

\* C21: the two inference calls of a step are issued together, and the
\* settling of one side's call (resolved, rejected, or still stalled) leaves
\* the calls and the series of the other side alone; whatever one side's
\* calls do, an outstanding call of the other side can complete its
\* bookkeeping, and a step callback stays scheduled.
SourcesIsolated ==
    /\ [][\A s \in Sides : \A o \in Sides \ {s} :
            /\ pitchCalls'[s] < pitchCalls[s] =>
                   /\ pitchCalls'[o] = pitchCalls[o]
                   /\ pitchSeq'[o] = pitchSeq[o]
                   /\ pitchRaf'
            /\ (pitchCalls'[s] > pitchCalls[s] /\ videoActive[o]) =>
                   pitchCalls'[o] = pitchCalls[o] + 1]_vars
    /\ [](pitchRaf /\ \A s \in Sides :
              (pitchCalls[s] > 0 /\ pitchSeq[s] < MaxPitchSeq) =>
                  ENABLED (/\ pitchSeq' = [pitchSeq EXCEPT ![s] = @ + 1]
                           /\ NextPitch))

\* the left call was rejected and another is stalled; the right side has pushed its values
RightCompletesBesideLeftFailure ==
    /\ pitchUnhandled
    /\ pitchCalls["left"] > 0 /\ pitchSeq["left"] = 0
    /\ pitchCalls["right"] = 0 /\ pitchSeq["right"] > 0

----------------------------------------------------------------------------
(* Guards, publication and export *)

\* C22: a compare attempted while the reference or the candidate series has
\* not been saved surfaces a user prompt (as saveCurrentAs does with an empty
\* buffer) and performs nothing: no result, statistics or RMSE is stored.
CompareWithoutSeriesPrompts ==
    (lastOp = "compare" /\ ~(refSamples.saved /\ cmpSamples.saved)) =>
        /\ notice # "none"
        /\ compareResult = NoResult /\ compareStats = NoStats /\ compareRmse = <<>>

derivedFrom(out) ==
    IF Len(out.datasets) = 0
    THEN compareResult = NoResult /\ compareStats = NoStats /\ compareRmse = <<>>
    ELSE /\ compareRmse = out.rmseRes
         /\ compareResult = [present |-> TRUE, labels |-> out.labels, datasets |-> out.datasets]
         /\ compareStats = out.stats

\* C23: after every compare request that runs, successful or ending in the
\* failure for lack of comparable data, the stored RMSE map, series pairs and
\* statistics are those of that request alone; nothing computed by an
\* earlier request remains stored.
CompareStateFromLastRequest ==
    compareRan =>
        derivedFrom(computeCompare(refSamples.rows, cmpSamples.rows, metrics, cycleNormalize))

----------------------------------------------------------------------------
(* downloadCSV: fn.xp holds the buffer, fn.out the rows of the file *)

CsvColumns == <<"kneeL", "kneeR", "hipL", "hipR", "trunk", "dKnee", "dHip">>

\* the texts a field of the file can be: a label, the empty string, or a
\* decimal numeral with its sign, its integer part and its fraction digits
labelText(l) == [kind |-> "label", label |-> l, neg |-> FALSE, whole |-> 0, frac |-> <<>>]

EmptyText == [kind |-> "empty", label |-> "", neg |-> FALSE, whole |-> 0, frac |-> <<>>]

numeral(neg, whole, frac) ==
    [kind |-> "numeral", label |-> "", neg |-> neg, whole |-> whole, frac |-> frac]

\* line 1642: the header row
CsvHeader == <<labelText("t(s)")>> \o [i \in 1..Len(CsvColumns) |-> labelText(CsvColumns[i])]

\* v.toFixed(3) of the number n/d: the nearest multiple of 0.001 (the sample
\* values are means of at most five integers, whose thousandths are never at a tie)
toFixed3(v) ==
    numeral(v[2] < 0,
            ((2000 * Abs(v[2]) + v[3]) \div (2 * v[3])) \div 1000,
            <<(((2000 * Abs(v[2]) + v[3]) \div (2 * v[3])) \div 100) % 10,
              (((2000 * Abs(v[2]) + v[3]) \div (2 * v[3])) \div 10) % 10,
              ((2000 * Abs(v[2]) + v[3]) \div (2 * v[3])) % 10>>)

\* line 1663: n = (v) => v == null ? "" : v.toFixed(3)
csvNumber(v) == IF IsNullish(v) THEN EmptyText ELSE toFixed3(v)

\* Array.prototype.join on the number s.t, a whole number of hundredths:
\* the shortest numeral, without trailing zeros
numberToString(cs) ==
    IF cs % 100 = 0 THEN numeral(FALSE, cs \div 100, <<>>)
    ELSE IF cs % 10 = 0 THEN numeral(FALSE, cs \div 100, <<(cs \div 10) % 10>>)
    ELSE numeral(FALSE, cs \div 100, <<(cs \div 10) % 10, cs % 10>>)

\* line 1645-1650: the row of one sample
csvRow(s) ==
    <<numberToString(s.t[2])>> \o [i \in 1..Len(CsvColumns) |-> csvNumber(s[CsvColumns[i]])]

\* line 1641-1651: the rows of the file
csvRows(samples) == <<CsvHeader>> \o [i \in 1..Len(samples) |-> csvRow(samples[i])]

\* smoothed values of one frame: the mean of f frames, at most one channel still null
csvSmoothed(nulls, f) ==
    [k \in ChannelSet |->
        IF k \in nulls THEN Null
        ELSE Num(LevelStep * (CHOOSE j \in 1..Len(Channels) : Channels[j] = k) + f - 1, f)]

\* what a frame contributes to a sample: the channel still null, if any, and the number of frames averaged
CsvFrames == {N \in SUBSET ChannelSet : Cardinality(N) <= MaxLow} \X (1..MaxMeanOf)

\* buffers as the recorder fills them: t a whole number of hundredths, strictly increasing
CsvBuffers(rows) ==
    UNION {{[i \in 1..n |-> sampleOf(SampleIntervalCs * (i - 1) + lead,
                                     csvSmoothed(fr[i][1], fr[i][2]))] :
                fr \in [1..n -> CsvFrames]} :
           n \in 0..rows, lead \in 0..MaxLead}

InitCsv ==
    /\ AppIdle
    /\ \E b \in CsvBuffers(MaxCsvRows) : fn = [FnIdle EXCEPT !.xp = b]

DownloadCSV ==
    /\ fn.name = "none"
    /\ fn' = [fn EXCEPT !.name = "downloadCSV", !.out = csvRows(fn.xp)]
    /\ UNCHANGED appVars

SpecCsv == InitCsv /\ [][DownloadCSV]_vars

\* C24: the export of a buffer of n samples is the header row followed by
\* exactly n data rows in buffer order; in each row a null channel value is
\* written as the empty string and every numeric field, t included, is
\* written with 3 decimal places.
CsvRowsFormatted ==
    fn.name = "downloadCSV" =>
        /\ Len(fn.out) = Len(fn.xp) + 1
        /\ fn.out[1] = CsvHeader
        /\ \A i \in 1..Len(fn.xp) :
              /\ Len(fn.out[i + 1]) = 1 + Len(CsvColumns)
              /\ fn.out[i + 1][1].kind = "numeral" /\ Len(fn.out[i + 1][1].frac) = 3
              /\ \A c \in 1..Len(CsvColumns) :
                    IF fn.xp[i][CsvColumns[c]] = Null
                    THEN fn.out[i + 1][c + 1] = EmptyText
                    ELSE /\ fn.out[i + 1][c + 1].kind = "numeral"
                         /\ Len(fn.out[i + 1][c + 1].frac) = 3

----------------------------------------------------------------------------
(* movingAvg called again and again on one buffer: fn.yp holds the buffer, *)
(* fn.x the input of the last call, fn.out the value it returned and       *)
(* fn.xp the valid inputs so far                                           *)

SmoothingInputs == Levels \cup {Null, Undefined, NaN}

CallMovingAvg ==
    /\ fn.name \in {"none", "movingAvg"}
    /\ \E val \in SmoothingInputs :
          /\ Len(movingAvgPush(fn.xp, val)) <= MaxPushes
          /\ fn' = [fn EXCEPT !.name = "movingAvg",
                              !.x = val,
                              !.xp = movingAvgPush(fn.xp, val),
                              !.yp = movingAvg(fn.yp, val, MovingAvgMax).buf,
                              !.out = <<movingAvg(fn.yp, val, MovingAvgMax).value>>]
    /\ UNCHANGED appVars

InitMovingAvg ==
    /\ AppIdle
    /\ fn = FnIdle

SpecMovingAvg == InitMovingAvg /\ [][CallMovingAvg]_vars

lastValid(inputs, n) ==
    SubSeq(inputs, Len(inputs) - (IF Len(inputs) < n THEN Len(inputs) ELSE n) + 1, Len(inputs))

\* C25: after each movingAvg call with max = 5 the buffer holds exactly the
\* last min(k, 5) valid inputs in arrival order, k being the number of valid
\* (non-null, finite) inputs so far; a call with a null input leaves the
\* buffer unchanged; the returned value is the arithmetic mean of the
\* buffer, or null only while the buffer is still empty.
MovingAvgHoldsLastValid ==
    /\ [](fn.name = "movingAvg" =>
            /\ \A i \in 1..Len(fn.xp) : fn.xp[i][1] = 1
            /\ fn.yp = lastValid(fn.xp, 5)
            /\ IF Len(fn.yp) = 0
               THEN fn.out[1] = Null
               ELSE fn.out[1][1] = 1 /\ Mul(fn.out[1], IntV(Len(fn.yp))) = SumSeq(fn.yp))
    /\ [][(fn'.name = "movingAvg" /\ IsNullish(fn'.x)) => fn'.yp = fn.yp]_vars

\* seven valid inputs: the buffer holds the last five, the first two have been dropped
BufferDroppedOldest ==
    /\ fn.name = "movingAvg"
    /\ Len(fn.xp) = 6 /\ Len(fn.yp) = 5
    /\ fn.xp[1] # fn.xp[6]
    /\ fn.out[1] # fn.yp[5]
    /\ IsNullish(fn.x)

----------------------------------------------------------------------------
(* EMA: fn.zp holds <<alpha>>, fn.yp <<v>> the state, fn.x the input of    *)
(* the last push, fn.out what the last call returned and fn.xp the         *)
(* non-null inputs so far                                                  *)

\* the constructor default (line 165) and the alpha PitchCompare passes (line 388-393)
EmaAlphas == {Num(3, 10), Num(7, 20)}

\* a push that blends from the input towards the state
emaPushSwapped(v, x, alpha) ==
    IF IsNullish(x) THEN v
    ELSE IF IsNullish(v) THEN x
    ELSE Add(x, Mul(alpha, Sub(v, x)))

\* line 166-169: the state after push(x)
emaPush(v, x, alpha) ==
    IF IsNullish(x) THEN v
    ELSE IF IsNullish(v) THEN x
    ELSE Add(v, Mul(alpha, Sub(x, v)))

InitEma ==
    /\ AppIdle
    /\ \E alpha \in EmaAlphas : fn = [FnIdle EXCEPT !.zp = <<alpha>>, !.yp = <<Undefined>>]

CallEmaPush ==
    /\ \E x \in SmoothingInputs :
          /\ IsNullish(x) \/ Len(fn.xp) < MaxEmaPushes
          /\ fn' = [fn EXCEPT !.name = "emaPush",
                              !.x = x,
                              !.xp = IF IsNullish(x) THEN @ ELSE Append(@, x),
                              !.yp = <<emaPush(fn.yp[1], x, fn.zp[1])>>,
                              !.out = <<emaPush(fn.yp[1], x, fn.zp[1])>>]
    /\ UNCHANGED appVars

\* line 170: value()
CallEmaValue ==
    /\ fn' = [fn EXCEPT !.name = "emaValue", !.out = fn.yp]
    /\ UNCHANGED appVars

SpecEma == InitEma /\ [][CallEmaPush \/ CallEmaValue]_vars

\* C26: the first non-null input of EMA.push sets the state to exactly that
\* input; each later non-null input x changes the state to
\* state + alpha * (x - state), that is (1 - alpha) * state + alpha * x; a
\* null or undefined input leaves the state unchanged and returns it
\* (undefined before any valid input); value() never changes the state.
EmaSeedsAndBlends ==
    /\ [][/\ fn'.name = "emaPush" /\ fn' # fn =>
                /\ fn'.out = fn'.yp
                /\ IF IsNullish(fn'.x) THEN fn'.yp = fn.yp
                   ELSE IF Len(fn.xp) = 0 THEN fn'.yp = <<fn'.x>>
                   ELSE fn'.yp = <<Add(Mul(Sub(IntV(1), fn.zp[1]), fn.yp[1]),
                                       Mul(fn.zp[1], fn'.x))>>
          /\ fn'.name = "emaValue" => fn'.yp = fn.yp /\ fn'.out = fn.yp]_vars
    /\ [](Len(fn.xp) = 0 => fn.yp = <<Undefined>>)

\* three inputs blended, then a null push that returned the state
EmaKeptStateOnNull ==
    /\ fn.name = "emaPush" /\ fn.x = Null
    /\ Len(fn.xp) = 3 /\ fn.xp[1] # fn.xp[2] /\ fn.xp[2] # fn.xp[3]
    /\ fn.yp[1][1] = 1 /\ fn.yp[1][3] > 1
    /\ fn.out = fn.yp

----------------------------------------------------------------------------
(* The arrays of the cycle mode *)

\* line 1713-1720: values is the channel recorded at times, index by index
alignedWith(rows, key) ==
    /\ Len(FilterNonNull(columnOf(rows, key))) = Len(timesOf(rows))
    /\ \A i \in 1..Len(rows) : FilterNonNull(columnOf(rows, key))[i] = rows[i][key]

\* the channels of the cycle mode that reach findLocalMinima (line 1719)
cycleChannelsRun ==
    {k \in ChannelSet :
        /\ metrics[k]
        /\ Len(FilterNonNull(columnOf(refSamples.rows, k))) > 0
        /\ Len(FilterNonNull(columnOf(cmpSamples.rows, k))) > 0}

\* C27: in a cycle-mode compare the times array and the values array handed
\* to findLocalMinima and cyclesNormalize for a channel have equal length and
\* values[i] is the channel value recorded at times[i], also when the saved
\* series holds null values for the channel; every mean-waveform value
\* stored is a finite number.
CycleArraysAligned ==
    (compareRan /\ cycleNormalize) =>
        /\ \A k \in cycleChannelsRun :
              alignedWith(refSamples.rows, k) /\ alignedWith(cmpSamples.rows, k)
        /\ \A d \in 1..Len(compareResult.datasets) :
              \A i \in 1..Len(compareResult.datasets[d].data) :
                 IsFinite(compareResult.datasets[d].data[i])

----------------------------------------------------------------------------
(* The render loop of App *)

\* C28: at most one per-frame render loop is active at any time: whatever
\* the sequence of startCamera, loadFile and stop, while the loop is switched
\* on there is never more than one chain of render steps, pending or
\* suspended in the pose call, processing frames.
OneRenderLoop == runningRef => chains <= 1

----------------------------------------------------------------------------
(* The payment webhook (stripeWebhook/src/index.js) *)

HandledTypes ==
    {"checkout.session.completed", "customer.subscription.updated",
     "customer.subscription.deleted"}

SubscriptionTypes == {"customer.subscription.updated", "customer.subscription.deleted"}

\* the subscription statuses of the provider
StripeStatuses == {"active", "trialing", "past_due", "unpaid", "canceled", "incomplete"}

\* the customer, the subscription and the period end an object carries: none of them, or all
Payloads == {<<Missing, Missing, Undefined>>, <<"cus_1", "sub_1", IntV(1700)>>}

requestOf(type, identity, payload, status) ==
    [json |-> TRUE, type |-> type, identity |-> identity, customer |-> payload[1],
     subscription |-> payload[2], periodEnd |-> payload[3], status |-> status, session |-> 0]

\* the bodies the endpoint receives: text that is no JSON, events of a type
\* the handler ignores, completed checkouts and subscription changes; the
\* identity is client_reference_id for a session and metadata.cognito_sub
\* for a subscription
ProviderEvents ==
    {[NoRequest EXCEPT !.json = FALSE]}
    \cup {requestOf("invoice.paid", Missing, p, Missing) : p \in Payloads}
    \cup {requestOf("checkout.session.completed", u, p, Missing) :
            u \in Users \cup {Missing}, p \in Payloads}
    \cup {requestOf(t, u, p, st) :
            t \in SubscriptionTypes, u \in Users \cup {Missing}, p \in Payloads,
            st \in StripeStatuses}

\* line 132-138
response(statusCode, body) == [statusCode |-> statusCode, body |-> body]

\* a mapping that passes the status of the provider through
mapStripeStatusUnmapped(st) == st

\* line 95-99
mapStripeStatus(st) ==
    IF st \in {"active", "trialing"} THEN "active"
    ELSE IF st \in {"past_due", "unpaid"} THEN "past_due"
    ELSE "canceled"

\* line 42-45, 74-77: the period end in seconds, as ISO text or null
periodEndText(sec) ==
    IF IsNullish(sec) THEN Null ELSE toISOString(sec[2] * 1000)

\* line 109-126: the item upsertEntitlement puts
entitlementItem(cognitoSub, status, customerId, subscriptionId, currentPeriodEnd, at) ==
    [pk |-> <<"USER#", cognitoSub>>,
     sk |-> "ENTITLEMENT#ALL_APPS",
     status |-> status,
     stripe_customer_id |-> customerId,
     stripe_subscription_id |-> subscriptionId,
     current_period_end |-> currentPeriodEnd,
     source |-> "stripe",
     updated_at |-> toISOString(at)]

\* ddb.put: the item replaces the item of the same key
putItem(table, item) ==
    {i \in table : ~(i.pk = item.pk /\ i.sk = item.sk)} \cup {item}

NoPut == [pk |-> <<"none", "none">>]

\* line 9-92: the response of the handler and the item it puts before responding
handlerOutcome(e, at) ==
    IF ~e.json THEN [response |-> response(400, "Invalid JSON"), put |-> NoPut]
    ELSE IF e.type = "checkout.session.completed"
    THEN IF orNull(e.identity) = NullId
         THEN [response |-> response(200, "no cognitoSub"), put |-> NoPut]
         ELSE [response |-> response(200, "checkout handled"),
               put |-> entitlementItem(orNull(e.identity), "active", orNull(e.customer),
                                       orNull(e.subscription), periodEndText(e.periodEnd), at)]
    ELSE IF e.type \in SubscriptionTypes
    THEN IF orNull(e.identity) = NullId
         THEN [response |-> response(200, "no cognitoSub on subscription"), put |-> NoPut]
         ELSE [response |-> response(200, "subscription handled"),
               put |-> entitlementItem(orNull(e.identity), mapStripeStatus(e.status),
                                       orNull(e.customer), orNull(e.subscription),
                                       periodEndText(e.periodEnd), at)]
    ELSE [response |-> response(200, "ignored"), put |-> NoPut]

\* the handler runs on the body e; ddb.put resolves or rejects, and a
\* rejection leaves the handler through upsertEntitlement (no catch)
StripeWebhook(e) ==
    /\ delivered' = e
    /\ \E putOk \in BOOLEAN :
          IF handlerOutcome(e, wallClock).put = NoPut
          THEN /\ putOk
               /\ webhookResponse' = handlerOutcome(e, wallClock).response
               /\ UNCHANGED entitlements
          ELSE IF putOk
          THEN /\ entitlements' = putItem(entitlements, handlerOutcome(e, wallClock).put)
               /\ webhookResponse' = handlerOutcome(e, wallClock).response
          ELSE /\ webhookResponse' = Thrown
               /\ UNCHANGED entitlements
    /\ UNCHANGED <<wallClock, sessions, checkoutResponse>>
    /\ UNCHANGED <<fn, refSamples, cmpSamples, notice, metrics, cycleNormalize, compareResult,
                   compareStats, compareRmse, lastOp, frameVars, pitchVars>>

EventDelivered == \E e \in ProviderEvents : StripeWebhook(e)

ClockTicks ==
    /\ wallClock < MaxClock
    /\ wallClock' = wallClock + 1
    /\ UNCHANGED <<entitlements, delivered, webhookResponse, sessions, checkoutResponse>>
    /\ UNCHANGED <<fn, refSamples, cmpSamples, notice, metrics, cycleNormalize, compareResult,
                   compareStats, compareRmse, lastOp, frameVars, pitchVars>>

InitWebhook ==
    /\ fn = FnIdle
    /\ AppIdle

NextWebhook == EventDelivered \/ ClockTicks

SpecWebhook == InitWebhook /\ [][NextWebhook]_vars

\* the identity an event carries, and whether it is one the handler writes for
carriesIdentity(e) ==
    e.json /\ e.type \in HandledTypes /\ e.identity \in Users

itemsOf(table, u) == {i \in table : i.pk = <<"USER#", u>>}

----------------------------------------------------------------------------
(* The checkout handler (stripeCheckout/src/index.js) and the provider *)

\* line 42-52: the parameters of stripe.checkout.sessions.create name no
\* client_reference_id and no metadata, so the session carries neither
createdSession(id, subscriber) ==
    [id |-> id, subscriber |-> subscriber, mode |-> "subscription",
     client_reference_id |-> Missing]

\* line 22-80: user u asks for a checkout; the preflight is answered at once,
\* the session is created at the provider or the creation fails
StripeCheckout ==
    /\ \E u \in Users, method \in {"OPTIONS", "POST"}, created \in BOOLEAN :
          IF method = "OPTIONS"
          THEN /\ created
               /\ checkoutResponse' = response(200, "")
               /\ UNCHANGED sessions
          ELSE IF created
          THEN /\ Cardinality(sessions) < MaxCheckouts
               /\ sessions' = sessions \cup {createdSession(Cardinality(sessions) + 1, u)}
               /\ checkoutResponse' = response(200, "url")
          ELSE /\ checkoutResponse' = response(500, "Failed to create checkout session")
               /\ UNCHANGED sessions
    /\ UNCHANGED <<entitlements, delivered, webhookResponse, wallClock>>
    /\ UNCHANGED <<fn, refSamples, cmpSamples, notice, metrics, cycleNormalize, compareResult,
                   compareStats, compareRmse, lastOp, frameVars, pitchVars>>

\* the checkout.session.completed event of session s: its object is the
\* session, with the customer and the subscription the provider created
completedEvent(s) ==
    [json |-> TRUE, type |-> "checkout.session.completed",
     identity |-> s.client_reference_id, customer |-> "cus_1", subscription |-> "sub_1",
     periodEnd |-> IntV(1700), status |-> Missing, session |-> s.id]

\* the subscriber pays and the provider delivers the event to the webhook
SessionCompleted == \E s \in sessions : StripeWebhook(completedEvent(s))

InitCheckout ==
    /\ fn = FnIdle
    /\ AppIdle

NextCheckout == StripeCheckout \/ SessionCompleted \/ ClockTicks

SpecCheckout == InitCheckout /\ [][NextCheckout]_vars

\* C30: for every checkout session the checkout handler created, once the
\* checkout.session.completed event of the session has been delivered to the
\* webhook and answered, the table holds a record with status active for
\* the user who subscribed.
CompletedCheckoutGrantsAccess ==
    \A s \in sessions :
        (delivered.session = s.id /\ webhookResponse.statusCode = 200) =>
            \E i \in entitlements : i.pk = <<"USER#", s.subscriber>> /\ i.status = "active"

====
